---- MODULE Spec2Model ----
(***************************************************************************)
(* Model of the embedding analysis engine of obs-auto-sort: the similarity *)
(* ranking of DatabaseManager (Postgres and ChromaDB variants), the        *)
(* Visualizer's t-SNE/k-means pipeline and its selection, the              *)
(* ThemeExtractor, the ChromaDB notes collection with the indexer of       *)
(* SemanticSearch, TextSearch, and the plugin's side panel: the toggle     *)
(* command of FleetingNotesPlugin and the search box of FleetingNotesView. *)
(*                                                                         *)
(* Numbers.  A JavaScript number is modelled as a record                   *)
(*     [nan |-> BOOLEAN, n |-> Int, d |-> Nat \ {0}]                       *)
(* that stands for the real n / sqrt(d), or for NaN when nan is TRUE.      *)
(* Cosine similarities of integer vectors, rationals and their order are   *)
(* exact in this representation.                                           *)
(***************************************************************************)
EXTENDS Integers, Sequences, FiniteSets, TLC

VARIABLES
    textCall,     \* the call of TextSearch.search that has just returned
    selectedPoints, \* Visualizer.selectedPoints: the ids of the selected points
    noteCall,     \* ChromaDB: the call of updateNote or indexNote that has just returned
    chromaNotes,  \* ChromaDB: the documents of the notes collection, by id
    plugin,       \* FleetingNotesPlugin: settings, saved settings, leaves, running toggles
    panel,        \* FleetingNotesView: input, mode, results, searches in flight
    wordCall,     \* the call of simpleStem or of a keyword grouping that has just returned
    detCall,      \* a call of searchSimilarNotes or analyzeNotes and its repetition
    tsne,         \* the gradient descent of runTSNE: its locals between iterations
    km,           \* the k-means loop of assignClusters: its locals between steps
    probCall,     \* the call of computeProbabilities that has just returned
    themeDb,      \* ThemeExtractor.dbManager is set
    globalCall,   \* the call of extractGlobalThemes that has just returned
    themeCall,    \* the call of analyzeNotes that has just returned
    partCall,     \* the call of assignClusters that has just returned
    vizDb,        \* Visualizer.dbManager is set
    currentData,  \* Visualizer.currentData
    vizCall,      \* the call of generateTSNEVisualization that has just returned
    cosCall,      \* the last call of calculateCosineSimilarity: inputs and outcome
    rows,         \* Postgres: the notes-embeddings join, in the order the query yields it
    chromaInit,   \* ChromaDB: notesCollection is set (initialize() succeeded)
    rankCall      \* the call of searchSimilarNotes that has just returned: inputs,
                  \* path taken, outcome

rankVars == <<rows, chromaInit, rankCall>>
vizVars == <<partCall, vizDb, currentData, vizCall>>
themeVars == <<themeCall, themeDb, globalCall>>
solverVars == <<probCall, km, tsne>>
lateVars == <<wordCall, panel, plugin, chromaNotes, noteCall, selectedPoints, textCall>>
coreVars ==
    <<cosCall, rows, chromaInit, rankCall, partCall, vizDb, currentData, vizCall,
      themeCall, themeDb, globalCall, probCall, km, tsne, detCall>>
vars ==
    <<cosCall, rows, chromaInit, rankCall, partCall, vizDb, currentData, vizCall,
      themeCall, themeDb, globalCall, probCall, km, tsne, detCall,
      wordCall, panel, plugin, chromaNotes, noteCall, selectedPoints, textCall>>

(***************************************************************************)
(* Bounds of the model.                                                    *)
(***************************************************************************)
MaxDim == 2
MaxRows == 2
MaxLimit == 2
MaxPoints == 3
MaxK == 3
MaxInputs == 6
MaxNotes == 3

(***************************************************************************)
(* Numbers.                                                                *)
(***************************************************************************)
Min(a, b) == IF a <= b THEN a ELSE b
Max(a, b) == IF a >= b THEN a ELSE b
Sgn(x) == IF x > 0 THEN 1 ELSE IF x < 0 THEN -1 ELSE 0
SqS(x) == Sgn(x) * x * x

R(n, d) == [nan |-> FALSE, n |-> n, d |-> d]
Rat(p, q) == R(p, q * q)
NaN == [nan |-> TRUE, n |-> 0, d |-> 1]
Zero == R(0, 1)

\* a >= b of JavaScript: false as soon as one side is NaN
NumGeq(a, b) == ~a.nan /\ ~b.nan /\ SqS(a.n) * b.d >= SqS(b.n) * a.d
NumEq(a, b) == NumGeq(a, b) /\ NumGeq(b, a)
\* Math.max(a, b)
MathMax(a, b) == IF a.nan \/ b.nan THEN NaN ELSE IF NumGeq(a, b) THEN a ELSE b
\* x / (Math.sqrt(a) * Math.sqrt(b)) for integers x and a, b >= 0
DivSqrt(x, ab) == IF ab = 0 THEN NaN ELSE R(x, ab)

RECURSIVE Dot(_, _)
Dot(a, b) == IF a = <<>> THEN 0 ELSE Head(a) * Head(b) + Dot(Tail(a), Tail(b))

(***************************************************************************)
(* DatabaseManager.calculateCosineSimilarity (Postgres variant).           *)
(* The outcome is [kind |-> "value", v |-> number] or                      *)
(* [kind |-> "error", v |-> Zero] when the call throws.                    *)
(***************************************************************************)
Value(v) == [kind |-> "value", v |-> v]
Thrown == [kind |-> "error", v |-> Zero]

\* calculateCosineSimilarity with the zero-norm guard left out
CosineNoNormGuard(vecA, vecB) ==
    IF Len(vecA) # Len(vecB) THEN Value(Zero)
    ELSE Value(DivSqrt(Dot(vecA, vecB), Dot(vecA, vecA) * Dot(vecB, vecB)))

calculateCosineSimilarity(vecA, vecB) ==
    IF Len(vecA) # Len(vecB) THEN Value(Zero)
    ELSE IF Dot(vecA, vecA) = 0 \/ Dot(vecB, vecB) = 0 THEN Value(Zero)
    ELSE Value(DivSqrt(Dot(vecA, vecB), Dot(vecA, vecA) * Dot(vecB, vecB)))

Component == -1 .. 1
VectorsOfDim(k) == [1 .. k -> Component]
Vectors == UNION {VectorsOfDim(k) : k \in 0 .. MaxDim}

NoCosCall == [called |-> FALSE, a |-> <<>>, b |-> <<>>, out |-> Value(Zero)]

CosInit == cosCall = NoCosCall

CallCosine ==
    /\ \E a \in Vectors, b \in Vectors :
          cosCall' = [called |-> TRUE, a |-> a, b |-> b,
                      out |-> calculateCosineSimilarity(a, b)]
    /\ UNCHANGED <<rankVars, vizVars, themeVars, solverVars, detCall, lateVars>>

(***************************************************************************)
(* The Postgres variant: searchSimilarNotes over the notes-embeddings      *)
(* join.  A row is [id, emb]; emb models the text column `embedding`:      *)
(*   "null"  SQL NULL (also a note without any embedding, in a left join)  *)
(*   "vec"   the JSON text of the number array v                           *)
(*   "bad"   text JSON.parse throws on                                     *)
(*   "jnull" the JSON text `null`: parses, and reading its length throws   *)
(*   "nan"   the JSON text of an array of Len(v) non-numeric strings       *)
(***************************************************************************)
NoteIds == {"n1", "n2"}
Emb(k, v) == [k |-> k, v |-> v]
StoredVectors == {<<1, 0>>, <<1, 1>>, <<-1, 0>>, <<1>>}
EmbeddingTexts ==
    {Emb("vec", v) : v \in StoredVectors}
        \cup {Emb("null", <<>>), Emb("bad", <<>>), Emb("jnull", <<>>), Emb("nan", <<0, 0>>)}
Queries == {<<1, 0>>}
Thresholds == {Rat(-1, 1), Zero, Rat(7, 10)}
Limits == 0 .. MaxLimit
DbModes == {"up", "flaky", "down"}   \* flaky: the first query of a call throws

Result(id, sim) == [id |-> id, similarity |-> sim]

\* calculateCosineSimilarity applied to JSON.parse(text), text parsable
CosineOfParsed(query, e) ==
    CASE e.k = "vec" -> calculateCosineSimilarity(query, e.v)
      [] e.k = "jnull" -> Thrown
      [] OTHER -> IF Len(query) # Len(e.v) \/ Dot(query, query) = 0
                    THEN Value(Zero) ELSE Value(NaN)

\* results.sort((a, b) => b.similarity - a.similarity): stable, descending
RECURSIVE InsertDesc(_, _)
InsertDesc(s, x) ==
    IF s = <<>> THEN <<x>>
    ELSE IF NumGeq(Head(s).similarity, x.similarity)
           THEN <<Head(s)>> \o InsertDesc(Tail(s), x)
           ELSE <<x>> \o s

RECURSIVE SortFrom(_, _)
SortFrom(acc, rest) ==
    IF rest = <<>> THEN acc ELSE SortFrom(InsertDesc(acc, Head(rest)), Tail(rest))

\* the results left in the order they were pushed
Unsorted(s) == s

\* a descending sort that puts, among equal similarities, the later one first
SortTiesReversed(s) == SortFrom(<<>>, [i \in 1 .. Len(s) |-> s[Len(s) + 1 - i]])

SortBySimilarity(s) == SortFrom(<<>>, s)

\* the results returned whole
NoSlice(s, limit) == s

\* Array.prototype.slice(0, limit)
SliceLimit(s, limit) ==
    IF limit >= 0 THEN SubSeq(s, 1, Min(limit, Len(s)))
    ELSE SubSeq(s, 1, Max(0, Len(s) + limit))

\* lines 338-352: the embeddings grouped by note, notes in first-seen order
RECURSIVE GroupByNote(_, _)
GroupByNote(noteMap, rs) ==
    IF rs = <<>> THEN noteMap
    ELSE LET row == Head(rs)
             at == {i \in 1 .. Len(noteMap) : noteMap[i].id = row.id}
         IN  IF row.emb.k \in {"null", "bad"} THEN GroupByNote(noteMap, Tail(rs))
             ELSE IF at = {}
                    THEN GroupByNote(Append(noteMap, [id |-> row.id, embeddings |-> <<row.emb>>]),
                                     Tail(rs))
                    ELSE GroupByNote([i \in 1 .. Len(noteMap) |->
                                         IF i \in at
                                           THEN [noteMap[i] EXCEPT !.embeddings = Append(@, row.emb)]
                                           ELSE noteMap[i]],
                                     Tail(rs))

\* lines 356-361: Math.max over the embeddings of one note, starting at 0
RECURSIVE MaxSimilarity(_, _, _)
MaxSimilarity(query, embs, acc) ==
    IF embs = <<>> THEN Value(acc)
    ELSE LET c == CosineOfParsed(query, Head(embs))
         IN  IF c.kind = "error" THEN Thrown
             ELSE MaxSimilarity(query, Tail(embs), MathMax(acc, c.v))

\* lines 355-369: the notes whose best similarity reaches the threshold
RECURSIVE ScoreNotes(_, _, _, _)
ScoreNotes(query, noteMap, threshold, acc) ==
    IF noteMap = <<>> THEN [kind |-> "value", v |-> acc]
    ELSE LET m == MaxSimilarity(query, Head(noteMap).embeddings, Zero)
         IN  IF m.kind = "error" THEN [kind |-> "error", v |-> <<>>]
             ELSE ScoreNotes(query, Tail(noteMap), threshold,
                             IF NumGeq(m.v, threshold)
                               THEN Append(acc, Result(Head(noteMap).id, m.v))
                               ELSE acc)

\* lines 393-401: the similarity the fallback gives one row
FallbackSimilarity(query, e) ==
    IF e.k = "null" THEN Zero
    ELSE IF e.k = "bad" THEN Rat(1, 10)
    ELSE LET c == CosineOfParsed(query, e)
         IN  IF c.kind = "error" THEN Rat(1, 10) ELSE c.v

\* lines 387-410: the fallback's pass over the rows
RECURSIVE FallbackScan(_, _, _, _)
FallbackScan(query, rs, threshold, acc) ==
    IF rs = <<>> THEN acc
    ELSE LET row == Head(rs)
             sim == FallbackSimilarity(query, row.emb)
         IN  IF \E i \in 1 .. Len(acc) : acc[i].id = row.id
               THEN FallbackScan(query, Tail(rs), threshold, acc)
               ELSE FallbackScan(query, Tail(rs), threshold,
                                 IF NumGeq(sim, threshold)
                                   THEN Append(acc, Result(row.id, sim)) ELSE acc)

Outcome(path, results) == [path |-> path, results |-> results]

\* lines 374-415: the catch block
FallbackSearch(rs, query, limit, threshold, mode) ==
    IF mode = "down" THEN Outcome("threw", <<>>)
    ELSE Outcome("fallback",
                 SliceLimit(SortBySimilarity(
                     FallbackScan(query, SubSeq(rs, 1, Min(3 * limit, Len(rs))),
                                  threshold, <<>>)), limit))

\* lines 322-416: DatabaseManager.searchSimilarNotes (Postgres)
searchSimilarNotes(rs, query, limit, threshold, mode) ==
    IF mode # "up" THEN FallbackSearch(rs, query, limit, threshold, mode)
    ELSE LET scored == ScoreNotes(query, GroupByNote(<<>>, rs), threshold, <<>>)
         IN  IF scored.kind = "error"
               THEN FallbackSearch(rs, query, limit, threshold, mode)
               ELSE Outcome("normal", SliceLimit(SortBySimilarity(scored.v), limit))

NoRankCall ==
    [op |-> "none", query |-> <<>>, limit |-> 0, threshold |-> Zero,
     answer |-> <<>>, path |-> "none", results |-> <<>>]

RankInit == rows = <<>> /\ chromaInit = FALSE /\ rankCall = NoRankCall

\* schema.ts / insertNote, insertEmbedding: one more row of the join
InsertRow ==
    /\ rankCall.op = "none"
    /\ ~chromaInit
    /\ Len(rows) < MaxRows
    /\ \E id \in NoteIds, e \in EmbeddingTexts :
          rows' = Append(rows, [id |-> id, emb |-> e])
    /\ UNCHANGED <<chromaInit, rankCall, cosCall, vizVars, themeVars, solverVars, detCall, lateVars>>

SearchPostgres ==
    /\ rankCall.op = "none"
    /\ ~chromaInit
    /\ \E q \in Queries, limit \in Limits, th \in Thresholds, mode \in DbModes :
          \E out \in {searchSimilarNotes(rows, q, limit, th, mode)} :
              rankCall' = [op |-> "postgres", query |-> q, limit |-> limit,
                           threshold |-> th, answer |-> <<>>,
                           path |-> out.path, results |-> out.results]
    /\ UNCHANGED <<rows, chromaInit, cosCall, vizVars, themeVars, solverVars, detCall, lateVars>>

(***************************************************************************)
(* The ChromaDB variant.  The collection's answer to query({nResults})     *)
(* is an input of the call: it throws, comes without documents, or lists   *)
(* at most nResults entries [id, has, dist4], nearest first, where the     *)
(* distance is dist4 / 4 and has = FALSE when the answer carries no        *)
(* distance for the entry.                                                 *)
(***************************************************************************)
ChromaIds == {"n1", "n2", "n3"}
Dist4 == {0, 1, 4, 8}
ChromaEntries == [id : ChromaIds, has : BOOLEAN, dist4 : Dist4]

NearestFirst(e) ==
    /\ \A i \in 1 .. Len(e) : ~e[i].has => e[i].dist4 = 0
    /\ \A i, j \in 1 .. Len(e) : i < j =>
          /\ e[i].id # e[j].id
          /\ (e[i].has /\ e[j].has) => e[i].dist4 <= e[j].dist4

ChromaAnswers(limit) ==
    {[kind |-> "throws", entries |-> <<>>], [kind |-> "nodocs", entries |-> <<>>]}
        \cup {[kind |-> "list", entries |-> e] :
                 e \in {x \in UNION {[1 .. k -> ChromaEntries] : k \in 0 .. Min(limit, MaxRows)} :
                           NearestFirst(x)}}

\* lines 168-169: distance = distances[i] || 1; similarity = 1 - distance
ChromaSimilarity(entry) ==
    LET d4 == IF ~entry.has \/ entry.dist4 = 0 THEN 4 ELSE entry.dist4
    IN  Rat(4 - d4, 4)

\* lines 167-183: the entries that reach the threshold, in the answer's order
RECURSIVE ChromaScan(_, _, _)
ChromaScan(entries, threshold, acc) ==
    IF entries = <<>> THEN acc
    ELSE LET sim == ChromaSimilarity(Head(entries))
         IN  ChromaScan(Tail(entries), threshold,
                        IF NumGeq(sim, threshold)
                          THEN Append(acc, Result(Head(entries).id, sim)) ELSE acc)

\* lines 153-191: DatabaseManager.searchSimilarNotes (ChromaDB)
searchSimilarNotesChroma(initialized, answer, threshold) ==
    IF ~initialized THEN Outcome("threw", <<>>)
    ELSE IF answer.kind = "throws" THEN Outcome("chromaCatch", <<>>)
    ELSE IF answer.kind = "nodocs" THEN Outcome("chroma", <<>>)
    ELSE Outcome("chroma", SortBySimilarity(ChromaScan(answer.entries, threshold, <<>>)))

\* lines 55-66: initialize() sets notesCollection
ChromaInitialize ==
    /\ rankCall.op = "none"
    /\ rows = <<>>
    /\ ~chromaInit
    /\ chromaInit' = TRUE
    /\ UNCHANGED <<rows, rankCall, cosCall, vizVars, themeVars, solverVars, detCall, lateVars>>

SearchChroma ==
    /\ rankCall.op = "none"
    /\ rows = <<>>
    /\ \E limit \in Limits, th \in Thresholds :
         \E answer \in ChromaAnswers(limit) :
          \E out \in {searchSimilarNotesChroma(chromaInit, answer, th)} :
              rankCall' = [op |-> "chroma", query |-> <<1, 0>>, limit |-> limit,
                           threshold |-> th, answer |-> answer.entries,
                           path |-> out.path, results |-> out.results]
    /\ UNCHANGED <<rows, chromaInit, cosCall, vizVars, themeVars, solverVars, detCall, lateVars>>

\* the caller takes the results of the call; the next call starts afresh
ReturnResults ==
    /\ rankCall.op # "none"
    /\ rankCall' = NoRankCall
    /\ UNCHANGED <<rows, chromaInit, cosCall, vizVars, themeVars, solverVars, detCall, lateVars>>

(***************************************************************************)
(* Visualizer.  A projected point is [x, y, nan]: integer coordinates on   *)
(* an arbitrary scale, or NaN (runTSNE yields NaN coordinates when the     *)
(* embeddings differ in length).  A centroid is [sx, sy, cnt, nan]: the    *)
(* point (sx / cnt, sy / cnt), so that means of integer points are exact.  *)
(***************************************************************************)
Pt(x, y) == [x |-> x, y |-> y, nan |-> FALSE]
NaNPt == [x |-> 0, y |-> 0, nan |-> TRUE]
Centroid(sx, sy, cnt) == [sx |-> sx, sy |-> sy, cnt |-> cnt, nan |-> FALSE]

\* lines 461-465: the squared distance of point p to centroid c, as num / den
Dist(p, c) ==
    [nan |-> p.nan \/ c.nan,
     num |-> (p.x * c.cnt - c.sx) * (p.x * c.cnt - c.sx)
               + (p.y * c.cnt - c.sy) * (p.y * c.cnt - c.sy),
     den |-> c.cnt * c.cnt]

\* lines 457-471: the first centroid at minimum distance; minDist starts at
\* Infinity (inf) and bestCluster at 0.  Clusters are numbered from 0.
RECURSIVE BestCluster(_, _, _, _, _)
BestCluster(p, centroids, c, minDist, best) ==
    IF c > Len(centroids) THEN best
    ELSE CHOOSE result \in
            {IF ~dist.nan /\ (minDist.inf \/ dist.num * minDist.den < minDist.num * dist.den)
               THEN BestCluster(p, centroids, c + 1,
                                [inf |-> FALSE, num |-> dist.num, den |-> dist.den], c - 1)
               ELSE BestCluster(p, centroids, c + 1, minDist, best) :
                dist \in {Dist(p, centroids[c])}} : TRUE

\* the last centroid at minimum distance instead of the first
RECURSIVE LastNearest(_, _, _, _, _)
LastNearest(p, centroids, c, minDist, best) ==
    IF c > Len(centroids) THEN best
    ELSE CHOOSE result \in
            {IF ~dist.nan /\ (minDist.inf \/ dist.num * minDist.den <= minDist.num * dist.den)
               THEN LastNearest(p, centroids, c + 1,
                                [inf |-> FALSE, num |-> dist.num, den |-> dist.den], c - 1)
               ELSE LastNearest(p, centroids, c + 1, minDist, best) :
                dist \in {Dist(p, centroids[c])}} : TRUE

AssignLastNearest(points, centroids) ==
    [i \in 1 .. Len(points) |->
        LastNearest(points[i], centroids, 1, [inf |-> TRUE, num |-> 0, den |-> 1], 0)]

\* every point sent to the cluster after its nearest one
AssignOffByOne(points, centroids) ==
    [i \in 1 .. Len(points) |->
        1 + BestCluster(points[i], centroids, 1, [inf |-> TRUE, num |-> 0, den |-> 1], 0)]

\* lines 456-472
AssignPoints(points, centroids) ==
    [i \in 1 .. Len(points) |->
        BestCluster(points[i], centroids, 1, [inf |-> TRUE, num |-> 0, den |-> 1], 0)]

RECURSIVE SumOver(_, _, _)
SumOver(points, clusters, c) ==
    IF points = <<>> THEN [sx |-> 0, sy |-> 0, cnt |-> 0, nan |-> FALSE]
    ELSE CHOOSE result \in
            {IF Head(clusters) # c THEN rest
             ELSE [sx |-> rest.sx + Head(points).x, sy |-> rest.sy + Head(points).y,
                   cnt |-> rest.cnt + 1, nan |-> rest.nan \/ Head(points).nan] :
                rest \in {SumOver(Tail(points), Tail(clusters), c)}} : TRUE

\* lines 474-492: the mean of each cluster's points; an empty cluster keeps
\* its centroid
UpdateCentroids(points, clusters, centroids) ==
    [c \in 1 .. Len(centroids) |->
        CHOOSE result \in
            {IF sum.cnt > 0 THEN sum ELSE centroids[c] :
                sum \in {SumOver(points, clusters, c - 1)}} : TRUE]

\* lines 454-493: the iterations left to run.  Once an iteration leaves the
\* centroids as they are, every later one repeats it.
RECURSIVE KMeans(_, _, _)
KMeans(points, centroids, left) ==
    CHOOSE result \in
        {IF left = 1 \/ updated = centroids THEN clusters
         ELSE KMeans(points, updated, left - 1) :
            <<clusters, updated>> \in
                {<<c, UpdateCentroids(points, c, centroids)>> :
                    c \in {AssignPoints(points, centroids)}}} : TRUE

KMeansIterations == 50

\* assignClusters without the early return of line 443
AssignNoEarlyReturn(points, numClusters, seeds) ==
    IF points = <<>> THEN [kind |-> "error", v |-> <<>>]
    ELSE Value(KMeans(points, seeds, KMeansIterations))

\* lines 442-496: Visualizer.assignClusters; seeds are the numClusters random
\* centroids of lines 450-452
assignClusters(points, numClusters, seeds) ==
    IF numClusters <= 1 THEN Value([i \in 1 .. Len(points) |-> 0])
    ELSE IF points = <<>> THEN [kind |-> "error", v |-> <<>>]
    ELSE Value(KMeans(points, seeds, KMeansIterations))

\* Math.random() * 2 - 1 per coordinate: centroids in [-1, 1) x [-1, 1)
SeedCentroids == {Centroid(-2, -2, 2), Centroid(0, 0, 2), Centroid(1, 1, 2)}
Seeds(k) == IF k <= 1 THEN {<<>>} ELSE [1 .. k -> SeedCentroids]

(***************************************************************************)
(* assignClusters called on its own.                                       *)
(***************************************************************************)
SamplePoints == {Pt(-3, 0), Pt(0, 0), Pt(3, 1), NaNPt}
PointLists == UNION {[1 .. n -> SamplePoints] : n \in 0 .. MaxPoints}
ClusterCounts == -1 .. MaxK

NoPartCall == [called |-> FALSE, points |-> <<>>, k |-> 0, out |-> Value(<<>>)]

CallAssignClusters ==
    /\ ~partCall.called
    /\ \E points \in PointLists, k \in ClusterCounts :
         \E seeds \in Seeds(k) :
          partCall' = [called |-> TRUE, points |-> points, k |-> k,
                       out |-> assignClusters(points, k, seeds)]
    /\ UNCHANGED <<cosCall, rankVars, vizDb, currentData, vizCall, themeVars, solverVars, detCall, lateVars>>

ReturnClusters ==
    /\ partCall.called
    /\ partCall' = NoPartCall
    /\ UNCHANGED <<cosCall, rankVars, vizDb, currentData, vizCall, themeVars, solverVars, detCall, lateVars>>

(***************************************************************************)
(* generateTSNEVisualization.  A search result is [id, title, look]: look  *)
(* is what getEmbeddingsByNoteId gives for it:                             *)
(*   "vec"       a first embedding that is an array                        *)
(*   "none"      no embedding stored                                       *)
(*   "notarray"  a first embedding that is null or not an array            *)
(*   "error"     the lookup throws                                         *)
(* runTSNE starts from Math.random() and works in floating point: its      *)
(* result is one of the layouts below, picked by the environment.          *)
(***************************************************************************)
Looks == {"vec", "none", "notarray", "error"}
SearchResult(i, look) == [id |-> i, title |-> <<"title", i>>, look |-> look]
\* the lists of n search results
RECURSIVE InputListsOfLength(_)
InputListsOfLength(n) ==
    IF n = 0 THEN {<<>>}
    ELSE {Append(list, SearchResult(n, look)) :
            list \in InputListsOfLength(n - 1), look \in Looks}
InputLists == UNION {InputListsOfLength(n) : n \in 0 .. MaxInputs}
\* long lists of usable results: 15 is the least N with floor(N / 3) = 5
LongLists == {[i \in 1 .. n |-> SearchResult(i, "vec")] : n \in {15, 18}}

LayoutNames == {"line", "skew", "clump", "nan"}
Layout(name, n) ==
    [i \in 1 .. n |->
        CASE name = "line" -> Pt(2 * i - (n + 1), 0)
          [] name = "skew" -> Pt(2 * i - (n + 1), (n + 1) - 2 * i)
          [] name = "clump" -> Pt(0, 0)
          [] OTHER -> NaNPt]

\* Math.max(...s) of a non-empty list of integers
MaxOf(s) == CHOOSE m \in {s[i] : i \in 1 .. Len(s)} : \A i \in 1 .. Len(s) : m >= s[i]

\* lines 161-181: the results whose lookup gives a usable embedding
IsUsable(r) == r.look = "vec"
\* a result without a usable embedding kept (as if it had a zero vector)
KeepsAllResults(searchResults) == searchResults
ValidResults(searchResults) == SelectSeq(searchResults, IsUsable)

\* line 195: the cluster count asked of assignClusters for n embeddings
ClusterLimit == 5
HalfOfN(n) == Min(ClusterLimit, n \div 2)
NumClusters(n) == Min(ClusterLimit, n \div 3)

\* the points built from the search results as given
PointsOfAllResults(searchResults, validResults, tsneResult, clusters) ==
    [i \in 1 .. Min(Len(searchResults), Len(tsneResult)) |->
        [id |-> searchResults[i].id, title |-> searchResults[i].title,
         x |-> tsneResult[i].x, y |-> tsneResult[i].y, nan |-> tsneResult[i].nan,
         cluster |-> clusters[i]]]

\* lines 198-205: one point per valid result
MakePoints(searchResults, validResults, tsneResult, clusters) ==
    [i \in 1 .. Len(validResults) |->
        [id |-> validResults[i].id, title |-> validResults[i].title,
         x |-> tsneResult[i].x, y |-> tsneResult[i].y, nan |-> tsneResult[i].nan,
         cluster |-> clusters[i]]]

\* line 209: the `clusters` field of the result
ReportedClusters(clusters) == MaxOf(clusters) + 1

DefaultPerplexity == 30
DefaultIterations == 1000

Failure(why) == [kind |-> why, n |-> 0, k |-> 0, tsne |-> <<>>, data |-> <<>>]

\* lines 146-215: Visualizer.generateTSNEVisualization with default options
generateTSNEVisualization(db, searchResults, layout, seeds) ==
    IF ~db THEN Failure("notInitialized")
    ELSE LET validResults == ValidResults(searchResults)
             n == Len(validResults)
         IN  IF n < 2 THEN Failure("notEnoughEmbeddings")
             ELSE CHOOSE result \in
                    {[kind |-> "ok", n |-> n, k |-> NumClusters(n), tsne |-> tsneResult,
                      data |-> [points |-> MakePoints(searchResults, validResults,
                                                      tsneResult, clusters),
                                clusters |-> ReportedClusters(clusters),
                                perplexity |-> DefaultPerplexity,
                                iterations |-> DefaultIterations]] :
                        <<tsneResult, clusters>> \in
                            {<<t, assignClusters(t, NumClusters(n), seeds).v>> :
                                t \in {Layout(layout, n)}}} : TRUE

NoData == <<>>
NoVizCall == [called |-> FALSE, inputs |-> <<>>, out |-> Failure("none")]

VizInit ==
    /\ partCall = NoPartCall
    /\ vizDb = FALSE        \* constructed without a connection string
    /\ currentData = NoData
    /\ vizCall = NoVizCall

\* lines 113-121: initialize() sets dbManager
InitializeVisualizer ==
    /\ ~vizCall.called
    /\ ~vizDb
    /\ vizDb' = TRUE
    /\ UNCHANGED <<cosCall, rankVars, partCall, currentData, vizCall, themeVars, solverVars, detCall, lateVars>>

\* a call of generateTSNEVisualization on one of the given lists
VisualizeFrom(lists) ==
    /\ ~vizCall.called
    /\ \E searchResults \in lists, layout \in LayoutNames :
         \E seeds \in Seeds(NumClusters(Len(ValidResults(searchResults)))) :
          \E out \in {generateTSNEVisualization(vizDb, searchResults, layout, seeds)} :
              /\ vizCall' = [called |-> TRUE, inputs |-> searchResults, out |-> out]
              /\ currentData' = IF out.kind = "ok" THEN out.data ELSE currentData
    /\ UNCHANGED <<cosCall, rankVars, partCall, vizDb, themeVars, solverVars, detCall, lateVars>>

\* the first visualization of a Visualizer
Visualize == currentData = NoData /\ VisualizeFrom(InputLists \cup LongLists)

ReturnVisualization ==
    /\ vizCall.called
    /\ vizCall' = NoVizCall
    /\ UNCHANGED <<cosCall, rankVars, partCall, vizDb, currentData, themeVars, solverVars, detCall, lateVars>>

(***************************************************************************)
(* ThemeExtractor.  A text is a string; a word is the tuple of its         *)
(* characters, each a string of length 1.                                  *)
(***************************************************************************)
Chars(str) == [i \in 1 .. Len(str) |-> SubSeq(str, i, i)]
CharSet(str) == {SubSeq(str, i, i) : i \in 1 .. Len(str)}

UpperCase == "ABCDEFGHIJKLMNOPQRSTUVWXYZ"
LowerCase == "abcdefghijklmnopqrstuvwxyz"
Digits == CharSet("0123456789")
\* the characters \w matches once the text is in lower case
WordChars == CharSet(LowerCase) \cup Digits \cup {"_"}

\* String.prototype.toLowerCase on one character
ToLower(ch) ==
    IF ch \in CharSet(UpperCase)
      THEN LET i == CHOOSE j \in 1 .. Len(UpperCase) : SubSeq(UpperCase, j, j) = ch
           IN  SubSeq(LowerCase, i, i)
      ELSE ch

\* lines 58-72: initializeStopWords
stopWords ==
    {Chars(w) : w \in
        {"the", "a", "an", "and", "or", "but", "in", "on", "at", "to", "for", "of", "with",
         "by", "from", "up", "about", "into", "through", "during", "before", "after",
         "above", "below", "between", "among", "within", "without", "under", "over",
         "is", "are", "was", "were", "be", "been", "being", "have", "has", "had",
         "do", "does", "did", "will", "would", "could", "should", "may", "might",
         "must", "shall", "can", "this", "that", "these", "those", "i", "you", "he",
         "she", "it", "we", "they", "me", "him", "her", "us", "them", "my", "your",
         "his", "its", "our", "their", "myself", "yourself", "himself",
         "herself", "itself", "ourselves", "yourselves", "themselves", "what",
         "which", "who", "whom", "whose", "where", "when", "why", "how", "all",
         "any", "both", "each", "few", "more", "most", "other", "some", "such",
         "no", "nor", "not", "only", "own", "same", "so", "than", "too", "very",
         "just", "now", "here", "there", "then", "once", "also", "as", "if"}}

\* searchResults.map(r => r.preview).join(' ')
RECURSIVE JoinWithSpace(_)
JoinWithSpace(previews) ==
    IF previews = <<>> THEN ""
    ELSE IF Len(previews) = 1 THEN Head(previews)
    ELSE Head(previews) \o " " \o JoinWithSpace(Tail(previews))

\* text.toLowerCase(), as the list of its characters
LowerChars(text) == [i \in 1 .. Len(text) |-> ToLower(SubSeq(text, i, i))]

\* the positions where a maximal run of word characters starts
WordStarts(lower) ==
    {i \in 1 .. Len(lower) :
        lower[i] \in WordChars /\ (i = 1 \/ lower[i - 1] \notin WordChars)}

\* the run of word characters that starts at position i
RunAt(lower, i) ==
    LET e == CHOOSE j \in i .. Len(lower) :
                 /\ \A m \in i .. j : lower[m] \in WordChars
                 /\ (j = Len(lower) \/ lower[j + 1] \notin WordChars)
    IN  SubSeq(lower, i, e)

\* the runs of word characters that start at the positions lo .. hi
RECURSIVE RunsIn(_, _, _, _)
RunsIn(lower, starts, lo, hi) ==
    IF lo > hi THEN <<>>
    ELSE IF lo = hi THEN IF lo \in starts THEN <<RunAt(lower, lo)>> ELSE <<>>
    ELSE CHOOSE runs \in
            {RunsIn(lower, starts, lo, mid) \o RunsIn(lower, starts, mid + 1, hi) :
                mid \in {(lo + hi) \div 2}} : TRUE

\* the runs of word characters, in text order
WordRuns(lower, starts) == RunsIn(lower, starts, 1, Len(lower))

\* lines 159-165: extractWords.  Lower case; every character that is neither a
\* word character nor white space becomes a space; split at white space; the
\* empty pieces dropped.  So a word is a maximal run of word characters.
extractWords(text) ==
    CHOOSE words \in
        {WordRuns(lower, starts) :
            <<lower, starts>> \in {<<l, WordStarts(l)>> : l \in {LowerChars(text)}}} : TRUE

AllDigits(word) == word # <<>> /\ \A i \in 1 .. Len(word) : word[i] \in Digits

\* lines 81-85: the filter of analyzeNotes
KeepWord(word) == Len(word) > 2 /\ word \notin stopWords /\ ~AllDigits(word)

\* the positions of the first occurrence of each word
FirstOccurrences(words) ==
    {i \in 1 .. Len(words) : \A j \in 1 .. i - 1 : words[j] # words[i]}

FrequencyEntries(words, firsts) ==
    [k \in 1 .. Cardinality(firsts) |->
        LET i == CHOOSE x \in firsts : Cardinality({j \in firsts : j <= x}) = k
        IN  [word |-> words[i],
             frequency |-> Cardinality({j \in 1 .. Len(words) : words[j] = words[i]})]]

\* lines 167-175: calculateWordFrequency.  The Map as the list of its entries
\* [word, frequency], in insertion order (the order of first occurrence).
calculateWordFrequency(words) ==
    CHOOSE entries \in
        {FrequencyEntries(w, firsts) :
            <<w, firsts>> \in {<<x, FirstOccurrences(x)>> : x \in {words}}} : TRUE

\* reduce((sum, freq) => sum + freq, 0) over the Map's values
RECURSIVE SumFrequencies(_)
SumFrequencies(entries) ==
    IF entries = <<>> THEN 0 ELSE Head(entries).frequency + SumFrequencies(Tail(entries))

\* where entry i goes: behind the entries of higher frequency and the earlier
\* entries of the same frequency
SortedPosition(entries, i) ==
    1 + Cardinality({j \in 1 .. Len(entries) :
                        \/ entries[j].frequency > entries[i].frequency
                        \/ entries[j].frequency = entries[i].frequency /\ j < i})

\* Array.prototype.sort((a, b) => b.frequency - a.frequency): stable
SortByFrequency(entries) ==
    CHOOSE sorted \in
        {[r \in 1 .. Len(e) |-> e[CHOOSE i \in 1 .. Len(e) : pos[i] = r]] :
            <<e, pos>> \in {<<x, [i \in 1 .. Len(x) |-> SortedPosition(x, i)]>> :
                                x \in {entries}}} : TRUE

\* the entries in the Map's order, not sorted
KeywordsUnsorted(wordFreq, limit) ==
    SubSeq([k \in 1 .. Len(wordFreq) |->
               [word |-> wordFreq[k].word,
                frequency |-> wordFreq[k].frequency,
                normalizedFrequency |->
                    [num |-> wordFreq[k].frequency, den |-> SumFrequencies(wordFreq)]]],
           1, Min(limit, Len(wordFreq)))

\* lines 177-188: getTopKeywords.  normalizedFrequency is the quotient
\* num / den.
getTopKeywords(wordFreq, limit) ==
    CHOOSE top \in
        {SubSeq(sorted, 1, Min(limit, Len(sorted))) :
            sorted \in
                {SortByFrequency(
                    [k \in 1 .. Len(wordFreq) |->
                        [word |-> wordFreq[k].word,
                         frequency |-> wordFreq[k].frequency,
                         normalizedFrequency |->
                             [num |-> wordFreq[k].frequency, den |-> totalWords]]]) :
                    totalWords \in {SumFrequencies(wordFreq)}}} : TRUE

KeywordLimit == 20

\* Array.prototype.join on words (tuples of characters)
RECURSIVE JoinWords(_, _)
JoinWords(ws, sep) ==
    IF ws = <<>> THEN <<>>
    ELSE IF Len(ws) = 1 THEN Head(ws)
    ELSE Head(ws) \o sep \o JoinWords(Tail(ws), sep)

\* lines 193-194: the n-gram that starts at each index i = 0 .. words.length - n
NGramWindows(words, n) ==
    [k \in 1 .. Max(0, Len(words) - n + 1) |-> JoinWords(SubSeq(words, k, k + n - 1), <<" ">>)]

\* lines 195-200: the Map's entries in insertion order; positions count from 0
NGramEntries(windows, firsts) ==
    [k \in 1 .. Cardinality(firsts) |->
        LET i == CHOOSE x \in firsts : Cardinality({j \in firsts : j <= x}) = k
        IN  CHOOSE entry \in
                {[ngram |-> windows[i],
                  frequency |-> Cardinality(at),
                  positions |->
                      [r \in 1 .. Cardinality(at) |->
                          (CHOOSE x \in at : Cardinality({j \in at : j <= x}) = r) - 1]] :
                    at \in {{j \in 1 .. Len(windows) : windows[j] = windows[i]}}} : TRUE]

\* the n-grams seen once kept as well
NGramsKeepSingles(words, n, limit) ==
    CHOOSE top \in
        {SubSeq(sorted, 1, Min(limit, Len(sorted))) :
            sorted \in
                {SortByFrequency(NGramEntries(w, firsts)) :
                    <<w, firsts>> \in
                        {<<x, FirstOccurrences(x)>> : x \in {NGramWindows(words, n)}}}} : TRUE

MoreThanOnce(ng) == ng.frequency > 1

\* lines 190-212: generateNGrams
generateNGrams(words, n, limit) ==
    CHOOSE top \in
        {SubSeq(sorted, 1, Min(limit, Len(sorted))) :
            sorted \in
                {SortByFrequency(SelectSeq(NGramEntries(w, firsts), MoreThanOnce)) :
                    <<w, firsts>> \in
                        {<<x, FirstOccurrences(x)>> : x \in {NGramWindows(words, n)}}}} : TRUE

BigramLimit == 15
TrigramLimit == 10

\* String.prototype.endsWith and String.prototype.includes on words
EndsWith(word, suffix) ==
    Len(word) >= Len(suffix) /\ SubSeq(word, Len(word) - Len(suffix) + 1, Len(word)) = suffix
Includes(word, part) ==
    \E i \in 0 .. Len(word) - Len(part) : SubSeq(word, i + 1, i + Len(part)) = part

\* line 294
suffixes == <<Chars("ing"), Chars("ed"), Chars("er"), Chars("est"), Chars("ly"), Chars("s")>>

\* the first suffix the word ends with is stripped, whatever is left
StemWithoutGuard(word) ==
    LET fits == {i \in 1 .. Len(suffixes) : EndsWith(word, suffixes[i])}
    IN  IF fits = {} THEN word
        ELSE LET first == CHOOSE i \in fits : \A j \in fits : i <= j
             IN  SubSeq(word, 1, Len(word) - Len(suffixes[first]))

\* lines 292-305: simpleStem strips the first suffix of the list that the word
\* ends with and that leaves it long enough
simpleStem(word) ==
    LET fits == {i \in 1 .. Len(suffixes) :
                    EndsWith(word, suffixes[i]) /\ Len(word) > Len(suffixes[i]) + 2}
    IN  IF fits = {} THEN word
        ELSE LET first == CHOOSE i \in fits : \A j \in fits : i <= j
             IN  SubSeq(word, 1, Len(word) - Len(suffixes[first]))

\* lines 307-319: the different characters of word1 that occur in word2
countCommonCharacters(word1, word2) ==
    Cardinality({word1[i] : i \in 1 .. Len(word1)} \cap {word2[i] : i \in 1 .. Len(word2)})

\* lines 267-290; commonChars / max length > 0.6 compared in tenths
areWordsRelated(word1, word2) ==
    \/ simpleStem(word1) = simpleStem(word2)
    \/ /\ Len(word1) - Len(word2) \in -2 .. 2
       /\ 10 * countCommonCharacters(word1, word2) > 6 * Max(Len(word1), Len(word2))
    \/ Includes(word1, word2)
    \/ Includes(word2, word1)

\* the inner loop without the test of `used`
RECURSIVE FindRelatedUsedOrNot(_, _, _, _)
FindRelatedUsedOrNot(keyword, others, used, group) ==
    IF others = <<>> THEN [group |-> group, used |-> used]
    ELSE IF Head(others).word = keyword.word \/ ~areWordsRelated(keyword.word, Head(others).word)
           THEN FindRelatedUsedOrNot(keyword, Tail(others), used, group)
           ELSE FindRelatedUsedOrNot(keyword, Tail(others), used \cup {Head(others).word},
                                     Append(group, Head(others)))

\* the inner loop of the grouping (lines 252-259, 335-342): the keywords
\* not used yet that are related to `keyword` join its group
RECURSIVE FindRelated(_, _, _, _)
FindRelated(keyword, others, used, group) ==
    IF others = <<>> THEN [group |-> group, used |-> used]
    ELSE IF Head(others).word \in used \/ ~areWordsRelated(keyword.word, Head(others).word)
           THEN FindRelated(keyword, Tail(others), used, group)
           ELSE FindRelated(keyword, Tail(others), used \cup {Head(others).word},
                            Append(group, Head(others)))

\* the outer loop of the grouping (lines 245-262, 328-347); with keepAll a
\* group is always pushed, without it only a group of two or more keywords
\* or one whose first keyword has frequency 3 or more
RECURSIVE GroupKeywords(_, _, _, _, _)
GroupKeywords(rest, all, used, groups, keepAll) ==
    IF rest = <<>> THEN groups
    ELSE IF Head(rest).word \in used
           THEN GroupKeywords(Tail(rest), all, used, groups, keepAll)
           ELSE CHOOSE result \in
                  {GroupKeywords(Tail(rest), all, found.used,
                                 IF keepAll \/ Len(found.group) >= 2
                                            \/ found.group[1].frequency >= 3
                                   THEN Append(groups, found.group) ELSE groups,
                                 keepAll) :
                      found \in {FindRelated(Head(rest), all, used \cup {Head(rest).word},
                                             <<Head(rest)>>)}} : TRUE

\* lines 240-265
groupSemanticKeywords(keywords) == GroupKeywords(keywords, keywords, {}, <<>>, TRUE)

TopicKeywords == 10
TopicBigrams == 5
TopicLimit == 8

\* group.map(kw => kw.word).join(', ')
GroupTopic(group) == JoinWords([i \in 1 .. Len(group) |-> group[i].word], <<",", " ">>)

AtLeastTwo(group) == Len(group) >= 2
AtLeastTwice(bg) == bg.frequency >= 2

\* every group made a topic, the single keywords too
TopicsOfAllGroups(keywords, bigrams) ==
    LET groups == groupSemanticKeywords(SubSeq(keywords, 1, Min(TopicKeywords, Len(keywords))))
        meaningful == SelectSeq(bigrams, AtLeastTwice)
        topics == [i \in 1 .. Len(groups) |-> GroupTopic(groups[i])]
                      \o [i \in 1 .. Min(TopicBigrams, Len(meaningful)) |-> meaningful[i].ngram]
    IN  SubSeq(topics, 1, Min(TopicLimit, Len(topics)))

\* lines 214-238: extractTopics
extractTopics(keywords, bigrams) ==
    CHOOSE result \in
        {SubSeq(topics, 1, Min(TopicLimit, Len(topics))) :
            topics \in
                {[i \in 1 .. Len(groups) |-> GroupTopic(groups[i])]
                    \o [i \in 1 .. Min(TopicBigrams, Len(meaningful)) |-> meaningful[i].ngram] :
                    <<groups, meaningful>> \in
                        {<<SelectSeq(groupSemanticKeywords(
                                         SubSeq(keywords, 1, Min(TopicKeywords, Len(keywords)))),
                                     AtLeastTwo),
                           SelectSeq(bigrams, AtLeastTwice)>>}}} : TRUE

\* lines 354-364
positiveWords ==
    {Chars(w) : w \in
        {"good", "great", "excellent", "amazing", "wonderful", "fantastic", "awesome",
         "love", "like", "enjoy", "happy", "pleased", "satisfied", "positive",
         "success", "successful", "achievement", "progress", "improvement", "better"}}
negativeWords ==
    {Chars(w) : w \in
        {"bad", "terrible", "awful", "horrible", "hate", "dislike", "sad", "angry",
         "frustrated", "disappointed", "negative", "problem", "issue", "failure",
         "difficult", "hard", "challenging", "struggle", "worse", "worst"}}

\* a quotient of integers num / den, den > 0
Frac(num, den) == [num |-> num, den |-> den]

\* lines 352-379: calculateSentiment, on the words of the text
calculateSentiment(words) ==
    LET positive == Cardinality({i \in 1 .. Len(words) : words[i] \in positiveWords})
        negative == Cardinality({i \in 1 .. Len(words) : words[i] \in negativeWords})
    IN  IF positive + negative = 0 THEN Frac(0, 1)
        ELSE Frac(positive - negative, positive + negative)

\* the characters \s matches, and the ones /[.!?]+/ splits at
WhiteSpace == {" ", "\t", "\n"}
SentenceEnds == {".", "!", "?"}

\* line 383: the pieces between runs of sentence ends that hold a character
\* other than white space
SentenceCount(text) ==
    LET c == Chars(text)
    IN  Cardinality({i \in 1 .. Len(c) :
            /\ c[i] \notin SentenceEnds
            /\ (i = 1 \/ c[i - 1] \in SentenceEnds)
            /\ \E j \in i .. Len(c) :
                  /\ c[j] \notin WhiteSpace
                  /\ \A m \in i .. j : c[m] \notin SentenceEnds})

\* line 389: text.replace(/\s/g, '').length
NonSpaceCount(text) ==
    Cardinality({i \in 1 .. Len(text) : SubSeq(text, i, i) \notin WhiteSpace})

\* lines 392-395 for nS sentences, nW words and nC characters, as a quotient:
\* 100 - (0.39 * nW / nS + 11.8 * nC / nW), kept within 0 .. 100
ReadabilityScore(nS, nW, nC) ==
    LET num == 10000 * nS * nW - 39 * nW * nW - 1180 * nC * nS
        den == 100 * nS * nW
    IN  IF num < 0 THEN Frac(0, 1) ELSE IF num > 100 * den THEN Frac(100, 1) ELSE Frac(num, den)

\* the quotients taken without the guard of line 386
ReadabilityUnguarded(text, words) ==
    IF SentenceCount(text) = 0 \/ Len(words) = 0 THEN [num |-> 0, den |-> 0]
    ELSE ReadabilityScore(SentenceCount(text), Len(words), NonSpaceCount(text))

\* lines 381-396: calculateReadability, on the text and its words
calculateReadability(text, words) ==
    IF SentenceCount(text) = 0 \/ Len(words) = 0 THEN Frac(0, 1)
    ELSE ReadabilityScore(SentenceCount(text), Len(words), NonSpaceCount(text))

\* lines 75-112: analyzeNotes
analyzeNotes(previews) ==
    CHOOSE result \in
        {[words |-> words,
          wordFreq |-> wordFreq,
          keywords |-> keywords,
          bigrams |-> bigrams,
          trigrams |-> generateNGrams(cleanWords, 3, TrigramLimit),
          topics |-> extractTopics(keywords, bigrams),
          sentiment |-> calculateSentiment(words),
          readability |-> calculateReadability(combinedText, words),
          wordCount |-> Len(words),
          uniqueWords |-> Cardinality({words[i] : i \in 1 .. Len(words)})] :
            <<combinedText, words, cleanWords, wordFreq, keywords, bigrams>> \in
                {<<t, w, c, f, getTopKeywords(f, KeywordLimit),
                   generateNGrams(c, 2, BigramLimit)>> :
                    <<t, w, c, f>> \in
                        {<<t2, w2, c2, calculateWordFrequency(c2)>> :
                            <<t2, w2, c2>> \in
                                {<<t3, w3, SelectSeq(w3, KeepWord)>> :
                                    <<t3, w3>> \in
                                        {<<t4, extractWords(t4)>> :
                                            t4 \in {JoinWithSpace(previews)}}}}}} : TRUE

\* the previews the notes are drawn from; the last one has 24 different
\* surviving words
Previews ==
    {"The cat sat on the mat.",
     "the cat sat; the Cat ran",
     "",
     "Good cats! 42 x1 it's A-OK, ok? 2024 bad bad",
     "Good_day good_day\t123abc\nRUG rug ox",
     "ant tan bee ebb cow owl dog god eel fox gnu hen ibis jay kiwi lynx mole newt orca pig quail rat vole vole rug"}
PreviewLists == UNION {[1 .. n -> Previews] : n \in 0 .. MaxNotes}

NoThemeCall == [called |-> FALSE, previews |-> <<>>, out |-> <<>>]
NoGlobalCall == [called |-> FALSE, previews |-> <<>>, out |-> <<>>]

ThemeInit ==
    /\ themeCall = NoThemeCall
    /\ themeDb = FALSE       \* constructed without a connection string
    /\ globalCall = NoGlobalCall

AnalyzeNotes ==
    /\ ~themeCall.called
    /\ \E previews \in PreviewLists :
         \E out \in {analyzeNotes(previews)} :
            themeCall' = [called |-> TRUE, previews |-> previews, out |-> out]
    /\ UNCHANGED <<cosCall, rankVars, vizVars, themeDb, globalCall, solverVars, detCall, lateVars>>

ReturnAnalysis ==
    /\ themeCall.called
    /\ themeCall' = NoThemeCall
    /\ UNCHANGED <<cosCall, rankVars, vizVars, themeDb, globalCall, solverVars, detCall, lateVars>>

(***************************************************************************)
(* extractGlobalThemes.  A theme is [keywords, score, frequency]; its id   *)
(* (a random UUID), its creation time and the note ids it copies from its  *)
(* argument are left out.                                                  *)
(***************************************************************************)
ThemeGroupLimit == 5

\* lines 321-350: groupSimilarKeywords
groupSimilarKeywords(keywords) ==
    CHOOSE groups \in
        {SubSeq(all, 1, Min(ThemeGroupLimit, Len(all))) :
            all \in {GroupKeywords(sorted, sorted, {}, <<>>, FALSE) :
                        sorted \in {SortByFrequency(keywords)}}} : TRUE

\* line 132: group.reduce((sum, kw) => sum + kw.frequency, 0)
RECURSIVE SumRawFrequency(_)
SumRawFrequency(group) ==
    IF group = <<>> THEN 0 ELSE Head(group).frequency + SumRawFrequency(Tail(group))

\* the numerators of the normalized frequencies of one analysis, which share
\* their denominator (the total number of words)
RECURSIVE SumNormalized(_)
SumNormalized(group) ==
    IF group = <<>> THEN 0
    ELSE Head(group).normalizedFrequency.num + SumNormalized(Tail(group))

\* line 131: the sum of the normalized frequencies over group.length
MeanNormalizedFrequency(group) ==
    Frac(SumNormalized(group), group[1].normalizedFrequency.den * Len(group))

\* lines 127-134
ThemeOf(group) ==
    [keywords |-> [i \in 1 .. Len(group) |-> group[i].word],
     score |-> MeanNormalizedFrequency(group),
     frequency |-> SumRawFrequency(group)]

\* the themes returned in the order of their groups
ThemesUnsorted(themes) == themes

\* line 156: themes.sort((a, b) => b.score - a.score), stable
SortByScore(themes) ==
    CHOOSE sorted \in
        {[r \in 1 .. Len(themes) |-> themes[CHOOSE i \in 1 .. Len(themes) : pos[i] = r]] :
            pos \in
                {[i \in 1 .. Len(themes) |->
                     1 + Cardinality({j \in 1 .. Len(themes) :
                            \/ themes[j].score.num * themes[i].score.den
                                   > themes[i].score.num * themes[j].score.den
                            \/ /\ themes[j].score.num * themes[i].score.den
                                      = themes[i].score.num * themes[j].score.den
                               /\ j < i})]}} : TRUE

\* lines 114-157: extractGlobalThemes with a store that takes every theme
extractGlobalThemes(db, previews) ==
    IF ~db THEN [kind |-> "notInitialized", analysis |-> <<>>, themes |-> <<>>, stored |-> <<>>]
    ELSE CHOOSE result \in
            {[kind |-> "ok", analysis |-> analysis,
              themes |-> SortByScore(themes),
              stored |-> themes] :
                <<analysis, themes>> \in
                    {<<a, [i \in 1 .. Len(groups) |-> ThemeOf(groups[i])]>> :
                        <<a, groups>> \in
                            {<<x, groupSimilarKeywords(x.keywords)>> :
                                x \in {analyzeNotes(previews)}}}} : TRUE

\* lines 139-154: every insertTheme throws; the error is caught and logged,
\* nothing is stored and the call goes on
StoreFails(result) == [result EXCEPT !.stored = <<>>]

\* lines 47-55: initialize() sets dbManager
InitializeThemeExtractor ==
    /\ ~globalCall.called
    /\ ~themeDb
    /\ themeDb' = TRUE
    /\ UNCHANGED <<cosCall, rankVars, vizVars, themeCall, globalCall, solverVars, detCall, lateVars>>

ExtractGlobalThemes ==
    /\ ~globalCall.called
    /\ \E previews \in PreviewLists :
         \E out \in {extractGlobalThemes(themeDb, previews)} :
            \E dbUp \in BOOLEAN :
                globalCall' = [called |-> TRUE, previews |-> previews,
                               out |-> IF dbUp THEN out ELSE StoreFails(out)]
    /\ UNCHANGED <<cosCall, rankVars, vizVars, themeCall, themeDb, solverVars, detCall, lateVars>>

ReturnThemes ==
    /\ globalCall.called
    /\ globalCall' = NoGlobalCall
    /\ UNCHANGED <<cosCall, rankVars, vizVars, themeCall, themeDb, solverVars, detCall, lateVars>>

(***************************************************************************)
(* Specifications.                                                         *)
(***************************************************************************)
(***************************************************************************)
(* A call repeated: searchSimilarNotes (Postgres) or analyzeNotes is called *)
(* and then called again with the same arguments, the database holding the *)
(* same rows and answering (or failing) the same way.                       *)
(***************************************************************************)
DetEmbeddingTexts == {Emb("vec", <<1, 0>>), Emb("vec", <<1, 1>>), Emb("null", <<>>), Emb("bad", <<>>)}
DetRowLists ==
    UNION {[1 .. n -> [id : NoteIds, emb : DetEmbeddingTexts]] : n \in 0 .. MaxRows}
DetPreviews ==
    {"The cat sat on the mat.", "the cat sat; the Cat ran", "Good_day good_day\t123abc\nRUG rug ox"}
DetPreviewLists == UNION {[1 .. n -> DetPreviews] : n \in 0 .. MaxNotes}

CallRank ==
    /\ detCall.op = "none"
    /\ \E rs \in DetRowLists, q \in Queries, limit \in Limits, th \in Thresholds,
          mode \in DbModes :
          \E out \in {searchSimilarNotes(rs, q, limit, th, mode)} :
              detCall' = [op |-> "rank", calls |-> 1,
                          in |-> [rows |-> rs, query |-> q, limit |-> limit,
                                  threshold |-> th, mode |-> mode],
                          first |-> out, second |-> out]
    /\ UNCHANGED <<cosCall, rankVars, vizVars, themeVars, solverVars, lateVars>>

CallRankAgain ==
    /\ detCall.op = "rank" /\ detCall.calls = 1
    /\ \E out \in {searchSimilarNotes(detCall.in.rows, detCall.in.query, detCall.in.limit,
                                        detCall.in.threshold, detCall.in.mode)} :
          detCall' = [detCall EXCEPT !.calls = 2, !.second = out]
    /\ UNCHANGED <<cosCall, rankVars, vizVars, themeVars, solverVars, lateVars>>

CallAnalyze ==
    /\ detCall.op = "none"
    /\ \E previews \in DetPreviewLists :
          \E out \in {analyzeNotes(previews)} :
              detCall' = [op |-> "analyze", calls |-> 1, in |-> previews,
                          first |-> out, second |-> out]
    /\ UNCHANGED <<cosCall, rankVars, vizVars, themeVars, solverVars, lateVars>>

CallAnalyzeAgain ==
    /\ detCall.op = "analyze" /\ detCall.calls = 1
    /\ \E out \in {analyzeNotes(detCall.in)} :
          detCall' = [detCall EXCEPT !.calls = 2, !.second = out]
    /\ UNCHANGED <<cosCall, rankVars, vizVars, themeVars, solverVars, lateVars>>

ReturnRepeated ==
    /\ detCall.op # "none" /\ detCall.calls = 2
    /\ detCall' = [op |-> "none"]
    /\ UNCHANGED <<cosCall, rankVars, vizVars, themeVars, solverVars, lateVars>>

NoProbCall == [called |-> FALSE]
NoKMeans == [phase |-> "idle"]
NoTSNE == [phase |-> "idle"]
NoDetCall == [op |-> "none"]

SolverInit == probCall = NoProbCall /\ km = NoKMeans /\ tsne = NoTSNE
DetInit == detCall = NoDetCall

(***************************************************************************)
(* computeProbabilities.  The exponentials of the search for beta are not  *)
(* computed: the weights it leaves in a row, exp(-beta * d * d) for the    *)
(* last beta, are chosen from RowWeights, or are 0 in every column when    *)
(* the exponentials underflow (the search then never moves beta).  A       *)
(* probability is the quotient Frac(num, den).                             *)
(***************************************************************************)
MaxProbPoints == 3
RowWeights == {1, 2}

\* lines 308-341: the rows the search can leave; P[i][i] is never written
WeightRows(n, i) ==
    {[j \in 1 .. n |-> 0]} \cup
    {row \in [1 .. n -> {0} \cup RowWeights] :
        row[i] = 0 /\ \A j \in 1 .. n : j # i => row[j] > 0}

\* The distances are symmetric and every search starts from beta = 1: a row
\* that does not underflow has a near neighbour, whose row does not
\* underflow either.
RECURSIVE FirstRows(_, _)
FirstRows(n, i) ==
    IF i = 0 THEN {<<>>}
    ELSE {Append(w, row) : w \in FirstRows(n, i - 1), row \in WeightRows(n, i)}

WeightMatrices(n) ==
    {w \in FirstRows(n, n) :
        Cardinality({i \in 1 .. n : w[i] # [j \in 1 .. n |-> 0]}) # 1}

RECURSIVE RowSum(_, _)
RowSum(row, j) == IF j = 0 THEN 0 ELSE row[j] + RowSum(row, j - 1)

\* lines 343-352: a row is divided by its sum when the sum is positive
Normalize(w, n) ==
    [i \in 1 .. n |->
        CHOOSE row \in
            {[j \in 1 .. n |-> IF sum > 0 THEN Frac(w[i][j], sum) ELSE Frac(w[i][j], 1)] :
                sum \in {RowSum(w[i], n)}} : TRUE]

\* (a + b) / m
FracMean(a, b, m) == Frac(a.num * b.den + b.num * a.den, a.den * b.den * m)
FracEq(a, b) == a.num * b.den = b.num * a.den

\* lines 355-360: the cells from the k-th on, row by row, each assignment
\* reading the matrix as the earlier assignments left it
RECURSIVE Symmetrize(_, _, _)
Symmetrize(P, n, k) ==
    IF k >= n * n THEN P
    ELSE CHOOSE result \in
            {Symmetrize([P EXCEPT ![i][j] = FracMean(P[i][j], P[j][i], 2 * n)], n, k + 1) :
                <<i, j>> \in {<<(k \div n) + 1, (k % n) + 1>>}} : TRUE

\* lines 303-363: computeProbabilities, from the weights the search leaves
computeProbabilities(w, n) ==
    CHOOSE result \in
        {[n |-> n, cond |-> cond, P |-> Symmetrize(cond, n, 0)] :
            cond \in {Normalize(w, n)}} : TRUE

ComputeProbabilities ==
    /\ ~probCall.called
    /\ \E n \in 0 .. MaxProbPoints :
         \E w \in WeightMatrices(n) :
            \E out \in {computeProbabilities(w, n)} :
                probCall' = [called |-> TRUE, n |-> out.n, cond |-> out.cond, P |-> out.P]
    /\ UNCHANGED <<cosCall, rankVars, vizVars, themeVars, km, tsne, detCall, lateVars>>

ReturnProbabilities ==
    /\ probCall.called
    /\ probCall' = NoProbCall
    /\ UNCHANGED <<cosCall, rankVars, vizVars, themeVars, km, tsne, detCall, lateVars>>

(***************************************************************************)
(* The k-means loop of assignClusters, one iteration at a time.  km holds  *)
(* the points, the centroids, the centroids the last assignment was made   *)
(* against (used), the clusters and the number of iterations done.         *)
(***************************************************************************)
MaxKmPoints == 2
KmPointLists == UNION {[1 .. n -> SamplePoints] : n \in 1 .. MaxKmPoints}
KmClusterCounts == {2, 3}

\* lines 443-452: numClusters > 1, clusters filled with 0, random centroids
StartKMeans ==
    /\ km.phase = "idle"
    /\ \E points \in KmPointLists, k \in KmClusterCounts :
         \E seeds \in Seeds(k) :
            km' = [phase |-> "loop", points |-> points, centroids |-> seeds,
                   used |-> seeds, clusters |-> [i \in 1 .. Len(points) |-> 0],
                   iter |-> 0]
    /\ UNCHANGED <<cosCall, rankVars, vizVars, themeVars, probCall, tsne, detCall, lateVars>>

\* lines 454-493: one iteration, the assignment and then the update
IterateKMeans ==
    /\ km.phase = "loop"
    /\ km.iter < KMeansIterations
    /\ \E clusters \in {AssignPoints(km.points, km.centroids)} :
          km' = [km EXCEPT !.clusters = clusters,
                           !.used = km.centroids,
                           !.centroids = UpdateCentroids(km.points, clusters, km.centroids),
                           !.iter = km.iter + 1]
    /\ UNCHANGED <<cosCall, rankVars, vizVars, themeVars, probCall, tsne, detCall, lateVars>>

\* line 495: return clusters
FinishKMeans ==
    /\ km.phase = "loop"
    /\ km.iter = KMeansIterations
    /\ km' = NoKMeans
    /\ UNCHANGED <<cosCall, rankVars, vizVars, themeVars, probCall, tsne, detCall, lateVars>>

(***************************************************************************)
(* The gradient descent of runTSNE, one iteration at a time.  The          *)
(* gradient, the gains and the momentum are not computed: the layout an    *)
(* update leaves (before it is centered) is picked by the environment.     *)
(* A coordinate is the quotient of an integer and den, in units of 1e-5;   *)
(* the embeddings have one length, so that no coordinate is NaN.  The      *)
(* learning rate is kept in quarters (eta = 4 * the rate).                 *)
(***************************************************************************)
MaxTsnePoints == 3
MaxIterations == 253
DecayIteration == 250
EtaMin == 50
EtaDivisor == 4
LearningRates == {10, 200, 400}
IterationCounts == {0, 1, DecayIteration, DecayIteration + 1, MaxIterations}

\* lines 229-231: (Math.random() - 0.5) * 0.0001 lies in [-5e-5, 5e-5)
RandomPositions == {[x |-> -4, y |-> 3], [x |-> 2, y |-> 0]}
\* lines 257-271: positions after an update
MovedPositions == {[x |-> -7, y |-> 2], [x |-> 5, y |-> 6]}

RECURSIVE SumX(_)
SumX(Y) == IF Y = <<>> THEN 0 ELSE Head(Y).x + SumX(Tail(Y))
RECURSIVE SumY(_)
SumY(Y) == IF Y = <<>> THEN 0 ELSE Head(Y).y + SumY(Tail(Y))

\* only the first axis centered
CenterFirstAxis(Y, den) ==
    [den |-> den * Len(Y),
     Y |-> [i \in 1 .. Len(Y) |->
              [x |-> Len(Y) * Y[i].x - SumX(Y), y |-> Len(Y) * Y[i].y]]]

\* lines 425-440: centerData; y - sum / n = (n * y - sum) / n
centerData(Y, den) ==
    [den |-> den * Len(Y),
     Y |-> [i \in 1 .. Len(Y) |->
              [x |-> Len(Y) * Y[i].x - SumX(Y), y |-> Len(Y) * Y[i].y - SumY(Y)]]]

\* line 278: Math.max(eta / 4, etaMin), in quarters
DecayedEta(eta) == Max(eta \div EtaDivisor, 4 * EtaMin)

\* lines 224-247: the locals before the loop
StartTSNE ==
    /\ tsne.phase \in {"idle", "returned"}
    /\ \E n \in 2 .. MaxTsnePoints, learningRate \in LearningRates,
          iterations \in IterationCounts :
         \E Y \in [1 .. n -> RandomPositions] :
            tsne' = [phase |-> "loop", learningRate |-> learningRate,
                     iterations |-> iterations, iter |-> 0,
                     eta |-> 4 * learningRate, used |-> 0,
                     moved |-> Y, Y |-> Y, den |-> 1]
    /\ UNCHANGED <<cosCall, rankVars, vizVars, themeVars, probCall, km, detCall, lateVars>>

\* lines 249-280: one iteration; used is the eta of its update
GradientStep ==
    /\ tsne.phase = "loop"
    /\ tsne.iter < tsne.iterations
    /\ \E moved \in [1 .. Len(tsne.Y) -> MovedPositions] :
         \E centered \in {centerData(moved, 1)} :
            tsne' = [tsne EXCEPT !.moved = moved,
                                 !.Y = centered.Y,
                                 !.den = centered.den,
                                 !.used = tsne.eta,
                                 !.eta = IF tsne.iter = DecayIteration
                                           THEN DecayedEta(tsne.eta) ELSE tsne.eta,
                                 !.iter = tsne.iter + 1]
    /\ UNCHANGED <<cosCall, rankVars, vizVars, themeVars, probCall, km, detCall, lateVars>>

\* line 282: return Y
ReturnLayout ==
    /\ tsne.phase = "loop"
    /\ tsne.iter = tsne.iterations
    /\ tsne' = [tsne EXCEPT !.phase = "returned"]
    /\ UNCHANGED <<cosCall, rankVars, vizVars, themeVars, probCall, km, detCall, lateVars>>

(***************************************************************************)
(* simpleStem called on its own, on words made of a base and an ending.    *)
(***************************************************************************)
StemBases ==
    {Chars(w) : w \in {"", "a", "go", "run", "walk", "bless", "k", "be", "sing", "singl"}}
StemEndings ==
    {Chars(w) : w \in {"", "ing", "ed", "er", "est", "ly", "s", "es", "ings", "ers",
                       "ered", "lys", "x"}}
StemWords == {base \o ending : base \in StemBases, ending \in StemEndings}

CallSimpleStem ==
    /\ wordCall.op = "none"
    /\ \E word \in StemWords :
          wordCall' = [op |-> "stem", word |-> word, out |-> simpleStem(word)]
    /\ UNCHANGED <<coreVars, panel, plugin, chromaNotes, noteCall, selectedPoints, textCall>>

ReturnStem ==
    /\ wordCall.op = "stem"
    /\ wordCall' = [op |-> "none"]
    /\ UNCHANGED <<coreVars, panel, plugin, chromaNotes, noteCall, selectedPoints, textCall>>

(***************************************************************************)
(* The selection of the Visualizer: selectedPoints holds the ids of the    *)
(* points clicked.  A click is taken at the place of a drawn point; a      *)
(* click elsewhere changes nothing.                                        *)
(***************************************************************************)
MaxSelectable == 3
SelectableLists == {[i \in 1 .. n |-> SearchResult(i, "vec")] : n \in 0 .. MaxSelectable}

\* lines 577-601: the point found at the place where points[at] is drawn; the
\* scales are finite only when the points differ in x and in y
getPointAtPosition(points, at) ==
    IF \/ \E i \in 1 .. Len(points) : points[i].nan
       \/ \A i \in 1 .. Len(points) : points[i].x = points[1].x
       \/ \A i \in 1 .. Len(points) : points[i].y = points[1].y
    THEN 0
    ELSE CHOOSE i \in 1 .. Len(points) :
             /\ points[i].x = points[at].x /\ points[i].y = points[at].y
             /\ \A j \in 1 .. i - 1 :
                   points[j].x # points[at].x \/ points[j].y # points[at].y

\* lines 612-615
getSelectedPoints(data, selected) ==
    IF data = NoData THEN <<>>
    ELSE LET IsSelected(p) == p.id \in selected
         IN  SelectSeq(data.points, IsSelected)

\* a further visualization by the same Visualizer
VisualizeAgain == VisualizeFrom(SelectableLists)

\* lines 549-565: handleCanvasClick
ClickPoint ==
    /\ ~vizCall.called
    /\ currentData # NoData
    /\ \E at \in 1 .. Len(currentData.points) :
          \E found \in {getPointAtPosition(currentData.points, at)} :
              /\ found # 0
              /\ selectedPoints' =
                    IF currentData.points[found].id \in selectedPoints
                      THEN selectedPoints \ {currentData.points[found].id}
                      ELSE selectedPoints \cup {currentData.points[found].id}
    /\ UNCHANGED <<coreVars, wordCall, panel, plugin, chromaNotes, noteCall, textCall>>

\* lines 617-620
ClearSelection ==
    /\ ~vizCall.called
    /\ selectedPoints # {}
    /\ selectedPoints' = {}
    /\ UNCHANGED <<coreVars, wordCall, panel, plugin, chromaNotes, noteCall, textCall>>

(***************************************************************************)
(* The two groupings called on their own, on lists of keywords with        *)
(* different words, as the frequency map yields them.                      *)
(***************************************************************************)
MaxKeywords == 3
Keyword(str, frequency) == [word |-> Chars(str), frequency |-> frequency]
GroupingKeywords ==
    {Keyword("run", 3), Keyword("runs", 1), Keyword("sun", 2), Keyword("rug", 3),
     Keyword("cat", 1), Keyword("walked", 4)}

RECURSIVE KeywordListsOfLength(_)
KeywordListsOfLength(n) ==
    IF n = 0 THEN {<<>>}
    ELSE {Append(l, kw) : <<l, kw>> \in
             {<<l, kw>> \in KeywordListsOfLength(n - 1) \X GroupingKeywords :
                 \A i \in 1 .. Len(l) : l[i].word # kw.word}}
KeywordLists == UNION {KeywordListsOfLength(n) : n \in 0 .. MaxKeywords}

CallGroupSemanticKeywords ==
    /\ wordCall.op = "none"
    /\ \E keywords \in KeywordLists :
          wordCall' = [op |-> "semantic", keywords |-> keywords,
                       out |-> groupSemanticKeywords(keywords)]
    /\ UNCHANGED <<coreVars, panel, plugin, chromaNotes, noteCall, selectedPoints, textCall>>

CallGroupSimilarKeywords ==
    /\ wordCall.op = "none"
    /\ \E keywords \in KeywordLists :
          wordCall' = [op |-> "similar", keywords |-> keywords,
                       out |-> groupSimilarKeywords(keywords)]
    /\ UNCHANGED <<coreVars, panel, plugin, chromaNotes, noteCall, selectedPoints, textCall>>

ReturnGroups ==
    /\ wordCall.op \in {"semantic", "similar"}
    /\ wordCall' = [op |-> "none"]
    /\ UNCHANGED <<coreVars, panel, plugin, chromaNotes, noteCall, selectedPoints, textCall>>

(***************************************************************************)
(* FleetingNotesView: the search box, the mode buttons and the searches    *)
(* that performSearch awaits.  The result list of a search is the pair of  *)
(* its mode and its query; <<>> is the empty list.  started counts the     *)
(* searches begun, failed tells that a search has thrown.                  *)
(***************************************************************************)
MaxSearches == 3
PanelQueries == {"", " ", "a", "ab"}
SearchModes == {"text", "semantic"}

\* !query.trim()
IsBlank(query) == \A i \in 1 .. Len(query) : SubSeq(query, i, i) \in WhiteSpace

ResultsOf(query, mode) == <<mode, query>>

\* lines 76-77 (part_006)
PanelInit ==
    panel = [input |-> "", mode |-> "text", searchResults |-> <<>>,
             pending |-> {}, started |-> 0, failed |-> FALSE]

\* lines 181-193: performSearch up to its await, on the panel p
performSearch(p, query) ==
    IF IsBlank(query) THEN [p EXCEPT !.searchResults = <<>>]
    ELSE [p EXCEPT !.pending = @ \cup {[id |-> p.started + 1, query |-> query, mode |-> p.mode]},
                   !.started = @ + 1]

\* lines 142-145: the input event
InputQuery ==
    /\ panel.started < MaxSearches
    /\ \E query \in PanelQueries :
          panel' = performSearch([panel EXCEPT !.input = query], query)
    /\ UNCHANGED <<coreVars, wordCall, plugin, chromaNotes, noteCall, selectedPoints, textCall>>

\* lines 147-157 and 202-209: a click on a mode button
ClickMode ==
    /\ panel.started < MaxSearches
    /\ \E mode \in SearchModes :
          panel' = IF IsBlank(panel.input) THEN [panel EXCEPT !.mode = mode]
                   ELSE performSearch([panel EXCEPT !.mode = mode], panel.input)
    /\ UNCHANGED <<coreVars, wordCall, plugin, chromaNotes, noteCall, selectedPoints, textCall>>

\* lines 190-194: a search resolves and performSearch goes on
SearchCompletes ==
    /\ \E search \in panel.pending :
          panel' = [panel EXCEPT !.pending = @ \ {search},
                                 !.searchResults = ResultsOf(search.query, search.mode)]
    /\ UNCHANGED <<coreVars, wordCall, plugin, chromaNotes, noteCall, selectedPoints, textCall>>

\* lines 195-199: a search rejects
SearchFails ==
    /\ \E search \in panel.pending :
          panel' = [panel EXCEPT !.pending = @ \ {search},
                                 !.searchResults = <<>>,
                                 !.failed = TRUE]
    /\ UNCHANGED <<coreVars, wordCall, plugin, chromaNotes, noteCall, selectedPoints, textCall>>

(***************************************************************************)
(* FleetingNotesPlugin: the open view leaves, settings.panelVisible, the   *)
(* settings last written by saveData, and the toggle calls in flight.  A   *)
(* call that opens a view waits in opening until setViewState has opened   *)
(* the view in its leaf, then in opened until setViewState resolves; a     *)
(* call that saves waits in saves, which the writes leave in order.  The   *)
(* leaf of a call is named by the number of the call; leaf 0 is the one    *)
(* onload opened.                                                          *)
(***************************************************************************)
MaxToggles == 5

\* lines 12-17 and 48-51 (src/src/main.ts): the default settings once onload is over
PluginInit ==
    plugin = [leaves |-> {0}, panelVisible |-> TRUE, saved |-> TRUE,
              opening |-> {}, opened |-> {}, saves |-> <<>>, started |-> 0]

\* lines 62-64: saveData is handed the settings as they are now
saveSettings(p) == [p EXCEPT !.saves = Append(@, p.panelVisible)]

\* lines 66-75 and 82-90: toggleFleetingNotesView up to its first await
ToggleFleetingNotesView ==
    /\ plugin.started < MaxToggles
    /\ plugin' =
          IF plugin.leaves # {}
          THEN saveSettings([plugin EXCEPT !.leaves = {},
                                           !.panelVisible = FALSE,
                                           !.started = @ + 1])
          ELSE [plugin EXCEPT !.opening = @ \cup {plugin.started + 1},
                              !.started = @ + 1]
    /\ UNCHANGED <<coreVars, wordCall, panel, chromaNotes, noteCall, selectedPoints, textCall>>

\* lines 90-93: setViewState opens the view in the leaf
ViewOpens ==
    /\ \E call \in plugin.opening :
          plugin' = [plugin EXCEPT !.opening = @ \ {call},
                                   !.opened = @ \cup {call},
                                   !.leaves = @ \cup {call}]
    /\ UNCHANGED <<coreVars, wordCall, panel, chromaNotes, noteCall, selectedPoints, textCall>>

\* lines 95 and 76-79: setViewState resolves and the call goes on to save
SetViewStateResolves ==
    /\ \E call \in plugin.opened :
          plugin' = saveSettings([plugin EXCEPT !.opened = @ \ {call},
                                                !.panelVisible = TRUE])
    /\ UNCHANGED <<coreVars, wordCall, panel, chromaNotes, noteCall, selectedPoints, textCall>>

\* line 63: the oldest write of saveData lands
SaveResolves ==
    /\ plugin.saves # <<>>
    /\ plugin' = [plugin EXCEPT !.saved = Head(plugin.saves), !.saves = Tail(@)]
    /\ UNCHANGED <<coreVars, wordCall, panel, chromaNotes, noteCall, selectedPoints, textCall>>

(***************************************************************************)
(* The ChromaDB notes collection: chromaNotes maps the ids stored to their *)
(* documents.  The id of a file is its path (generateNoteId is one-to-one  *)
(* on the paths used).  Every request to the server may be rejected; the   *)
(* flags named ...Fails are those rejections.                              *)
(***************************************************************************)
MaxFiles == 2
NotePaths == {"a.md", "b.md"}
NoteContents == {"", "x", "y"}
NoteDatas == [id : NotePaths \cup {""}, content : NoteContents]
NoExistingNote == "null"

Without(coll, id) == [i \in DOMAIN coll \ {id} |-> coll[i]]
With(coll, id, content) ==
    [i \in DOMAIN coll \cup {id} |-> IF i = id /\ id \notin DOMAIN coll THEN content ELSE coll[i]]

\* lines 204-218 (queries.ts)
deleteNote(coll, init, id, deleteFails) ==
    IF ~init THEN [threw |-> TRUE, out |-> FALSE, coll |-> coll]
    ELSE IF deleteFails THEN [threw |-> FALSE, out |-> FALSE, coll |-> coll]
    ELSE [threw |-> FALSE, out |-> TRUE, coll |-> Without(coll, id)]

\* lines 85-108; an add of an id already stored leaves the stored document
insertNote(coll, init, noteData, addFails) ==
    IF ~init THEN [threw |-> TRUE, out |-> FALSE, coll |-> coll]
    ELSE IF addFails THEN [threw |-> FALSE, out |-> FALSE, coll |-> coll]
    ELSE [threw |-> FALSE, out |-> TRUE, coll |-> With(coll, noteData.id, noteData.content)]

\* lines 110-121
updateNote(coll, init, id, noteData, deleteFails, addFails) ==
    LET deleted == deleteNote(coll, init, id, deleteFails)
        inserted == insertNote(deleted.coll, init, noteData, addFails)
    IN  IF deleted.threw THEN [threw |-> FALSE, out |-> FALSE, coll |-> coll]
        ELSE IF noteData.id # "" /\ noteData.content # ""
             THEN [threw |-> FALSE, out |-> inserted.out, coll |-> inserted.coll]
             ELSE [threw |-> FALSE, out |-> FALSE, coll |-> deleted.coll]

\* lines 123-152: the id of the note stored for the path
getNoteByPath(coll, init, path, getFails) ==
    IF init /\ ~getFails /\ path \in DOMAIN coll THEN path ELSE NoExistingNote

\* lines 120-153 (SemanticSearch.ts); file is the path and the content read
indexNote(coll, init, connected, file, fails) ==
    LET noteData == [id |-> file.path, content |-> file.content]
        existingNote == getNoteByPath(coll, init, file.path, fails.get)
        updated == updateNote(coll, init, existingNote, noteData, fails.delete, fails.add)
        inserted == insertNote(coll, init, noteData, fails.add)
    IN  IF ~connected \/ fails.read THEN [out |-> FALSE, coll |-> coll]
        ELSE IF existingNote # NoExistingNote THEN [out |-> TRUE, coll |-> updated.coll]
        ELSE IF inserted.threw THEN [out |-> FALSE, coll |-> coll]
        ELSE [out |-> TRUE, coll |-> inserted.coll]

\* lines 155-170: files and their rejections, one after the other
RECURSIVE indexAllNotes(_, _, _, _, _)
indexAllNotes(coll, init, files, fails, counts) ==
    IF files = <<>> THEN [out |-> counts, coll |-> coll]
    ELSE LET one == indexNote(coll, init, TRUE, Head(files), Head(fails))
         IN  indexAllNotes(one.coll, init, Tail(files), Tail(fails),
                           IF one.out THEN [counts EXCEPT !.indexed = @ + 1]
                           ELSE [counts EXCEPT !.failed = @ + 1])

NoFailure == [read |-> FALSE, get |-> FALSE, delete |-> FALSE, add |-> FALSE]
Failures ==
    {NoFailure} \cup {[NoFailure EXCEPT ![f] = TRUE] : f \in {"read", "get", "delete", "add"}}
VaultFiles == [path : NotePaths, content : NoteContents \ {""}] \cup {[path |-> "a.md", content |-> ""]}

RECURSIVE FileListsOfLength(_)
FileListsOfLength(n) ==
    IF n = 0 THEN {<<>>}
    ELSE {Append(l, f) : l \in FileListsOfLength(n - 1), f \in VaultFiles}
DistinctPaths(files) ==
    \A i, j \in 1 .. Len(files) : files[i].path = files[j].path => i = j

InsertNote ==
    /\ noteCall.op = "none"
    /\ \E noteData \in NoteDatas, addFails \in BOOLEAN :
          /\ noteData.id # ""
          /\ \E r \in {insertNote(chromaNotes, chromaInit, noteData, addFails)} :
                /\ ~r.threw
                /\ chromaNotes' = r.coll
                /\ noteCall' = [op |-> "insert", id |-> noteData.id, noteData |-> noteData,
                                before |-> chromaNotes, out |-> r.out]
    /\ UNCHANGED <<coreVars, wordCall, panel, plugin, selectedPoints, textCall>>

UpdateNote ==
    /\ noteCall.op = "none"
    /\ \E id \in NotePaths, noteData \in NoteDatas, deleteFails, addFails \in BOOLEAN :
          \E r \in {updateNote(chromaNotes, chromaInit, id, noteData, deleteFails, addFails)} :
              /\ chromaNotes' = r.coll
              /\ noteCall' = [op |-> "update", id |-> id, noteData |-> noteData,
                              before |-> chromaNotes, out |-> r.out]
    /\ UNCHANGED <<coreVars, wordCall, panel, plugin, selectedPoints, textCall>>

IndexNote ==
    /\ noteCall.op = "none"
    /\ \E file \in VaultFiles, connected \in BOOLEAN, fails \in Failures :
          \E r \in {indexNote(chromaNotes, chromaInit, connected, file, fails)} :
              /\ chromaNotes' = r.coll
              /\ noteCall' = [op |-> "index", file |-> file, fails |-> fails,
                              before |-> chromaNotes, out |-> r.out]
    /\ UNCHANGED <<coreVars, wordCall, panel, plugin, selectedPoints, textCall>>

IndexAllNotes ==
    /\ noteCall.op = "none"
    /\ \E n \in 0 .. MaxFiles :
          \E files \in {l \in FileListsOfLength(n) : DistinctPaths(l)},
             fails \in [1 .. n -> {NoFailure, [NoFailure EXCEPT !.add = TRUE]}] :
              \E r \in {indexAllNotes(chromaNotes, chromaInit, files, fails,
                                       [indexed |-> 0, failed |-> 0])} :
                  /\ chromaNotes' = r.coll
                  /\ noteCall' = [op |-> "indexAll", files |-> files, fails |-> fails,
                                  before |-> chromaNotes, out |-> r.out]
    /\ UNCHANGED <<coreVars, wordCall, panel, plugin, selectedPoints, textCall>>

ReturnNote ==
    /\ noteCall.op # "none"
    /\ noteCall' = [op |-> "none"]
    /\ UNCHANGED <<coreVars, wordCall, panel, plugin, chromaNotes, selectedPoints, textCall>>

(***************************************************************************)
(* TextSearch.  A text is the tuple of its characters.  A score is kept    *)
(* in halves (the fuzzy matches count 0.5 each).  A file of the vault is   *)
(* [path, content, readable, recent]: readable tells whether cachedRead    *)
(* resolves, recent whether its content reads as a date less than seven    *)
(* days before now.                                                        *)
(***************************************************************************)
MaxTextFiles == 3
TitleWeight == 10
ExactTitleBonus == 20
ContentWeight == 2
WordWeight == 3
HeaderBonus == 5
RecentBonus == 1
FuzzyMinLength == 2

\* lines 92-103: countOccurrences, from position pos on
RECURSIVE CountFrom(_, _, _)
CountFrom(text, substring, pos) ==
    IF pos + Len(substring) - 1 > Len(text) THEN 0
    ELSE IF SubSeq(text, pos, pos + Len(substring) - 1) = substring
           THEN 1 + CountFrom(text, substring, pos + Len(substring))
           ELSE CountFrom(text, substring, pos + 1)

countOccurrences(text, substring) ==
    IF substring = <<>> THEN 0 ELSE CountFrom(text, substring, 1)

\* \b between the characters pos - 1 and pos of the text
WordBoundary(lower, pos) ==
    (pos > 1 /\ lower[pos - 1] \in WordChars) # (pos <= Len(lower) /\ lower[pos] \in WordChars)

\* lines 61-62: the matches of /\bquery\b/gi from position pos on
RECURSIVE WordMatchesFrom(_, _, _)
WordMatchesFrom(lower, query, pos) ==
    IF pos + Len(query) - 1 > Len(lower) THEN 0
    ELSE IF /\ SubSeq(lower, pos, pos + Len(query) - 1) = query
            /\ WordBoundary(lower, pos)
            /\ WordBoundary(lower, pos + Len(query))
           THEN 1 + WordMatchesFrom(lower, query, pos + Len(query))
           ELSE WordMatchesFrom(lower, query, pos + 1)

\* line 66: query.split(/\s+/), the words that are not empty
RECURSIVE SplitWords(_, _, _)
SplitWords(text, word, acc) ==
    IF text = <<>> THEN (IF word = <<>> THEN acc ELSE Append(acc, word))
    ELSE IF Head(text) \in WhiteSpace
           THEN SplitWords(Tail(text), <<>>, IF word = <<>> THEN acc ELSE Append(acc, word))
           ELSE SplitWords(Tail(text), Append(word, Head(text)), acc)

\* lines 66-72, in halves
RECURSIVE FuzzyHalves(_, _)
FuzzyHalves(lower, words) ==
    IF words = <<>> THEN 0
    ELSE (IF Len(Head(words)) > FuzzyMinLength THEN countOccurrences(lower, Head(words)) ELSE 0)
             + FuzzyHalves(lower, Tail(words))

\* the end of the run of characters of `set` that starts at pos
RECURSIVE RunEnd(_, _, _)
RunEnd(text, pos, set) ==
    IF pos <= Len(text) /\ text[pos] \in set THEN RunEnd(text, pos + 1, set) ELSE pos

\* lines 75-81: the matches of /^#+\s+(.*)$/gm whose group includes the query
RECURSIVE HeaderMatchesFrom(_, _, _)
HeaderMatchesFrom(lower, query, pos) ==
    IF pos > Len(lower) THEN 0
    ELSE IF (pos = 1 \/ lower[pos - 1] = "\n") /\ lower[pos] = "#"
           THEN LET afterHashes == RunEnd(lower, pos, {"#"})
                    afterSpace == RunEnd(lower, afterHashes, WhiteSpace)
                    lineEnd == RunEnd(lower, afterSpace, {lower[i] : i \in 1 .. Len(lower)} \ {"\n"})
                IN  IF afterSpace = afterHashes
                      THEN HeaderMatchesFrom(lower, query, afterHashes)
                      ELSE (IF Includes(SubSeq(lower, afterSpace, lineEnd - 1), query)
                              THEN 1 ELSE 0)
                               + HeaderMatchesFrom(lower, query, Max(lineEnd, pos + 1))
           ELSE HeaderMatchesFrom(lower, query, pos + 1)

\* lines 41-90: calculateTextScore, in halves; query is in lower case
calculateTextScore(content, title, query, recent) ==
    LET contentLower == LowerChars(content)
        titleLower == LowerChars(title)
    IN  2 * (IF Includes(titleLower, query)
               THEN TitleWeight + (IF titleLower = query THEN ExactTitleBonus ELSE 0)
               ELSE 0)
          + 2 * ContentWeight * countOccurrences(contentLower, query)
          + 2 * WordWeight * WordMatchesFrom(contentLower, query, 1)
          + FuzzyHalves(contentLower, SplitWords(query, <<>>, <<>>))
          + 2 * HeaderBonus * HeaderMatchesFrom(contentLower, query, 1)
          + (IF recent THEN 2 * RecentBonus ELSE 0)

\* file.basename
Basename(path) == SubSeq(path, 1, Len(path) - 3)

\* lines 16-36: the loop over the files
RECURSIVE ScanFiles(_, _, _)
ScanFiles(files, queryLower, results) ==
    IF files = <<>> THEN results
    ELSE LET file == Head(files)
             score == calculateTextScore(file.content, Basename(file.path), queryLower,
                                         file.recent)
         IN  ScanFiles(Tail(files), queryLower,
                       IF file.readable /\ score > 0
                         THEN Append(results, [path |-> file.path, score |-> score])
                         ELSE results)

\* the results in the order of the files
ResultsAsPushed(results) == results

\* line 38: results.sort((a, b) => b.score - a.score), stable
SortResults(results) ==
    [r \in 1 .. Len(results) |->
        results[CHOOSE i \in 1 .. Len(results) :
                   r = 1 + Cardinality({j \in 1 .. Len(results) :
                                           \/ results[j].score > results[i].score
                                           \/ results[j].score = results[i].score /\ j < i})]]

\* lines 11-39: TextSearch.search
search(files, query) == SortResults(ScanFiles(files, LowerChars(query), <<>>))

TextQueries == {"ab", "Abc", "ab c"}
TextContents == {"", "ab", "abc ab", "# Ab c\nxab", "#\nab c", "2026-11-01"}
TextPaths == {"ab.md", "abc.md", "x.md"}
\* an unreadable file has some content all the same; only a content that
\* reads as a date can be recent
VaultTexts ==
    {f \in [path : TextPaths, content : TextContents, readable : BOOLEAN, recent : BOOLEAN] :
        /\ f.recent => f.content = "2026-11-01"
        /\ ~f.readable => f.content = "abc ab"}

RECURSIVE TextFileListsOfLength(_)
TextFileListsOfLength(n) ==
    IF n = 0 THEN {<<>>}
    ELSE {Append(l, f) : <<l, f>> \in
             {<<l, f>> \in TextFileListsOfLength(n - 1) \X VaultTexts :
                 \A i \in 1 .. Len(l) : l[i].path # f.path}}

CallSearch ==
    /\ ~textCall.called
    /\ \E n \in 0 .. MaxTextFiles :
          \E files \in TextFileListsOfLength(n), query \in TextQueries :
              textCall' = [called |-> TRUE, files |-> files, query |-> query,
                           out |-> search(files, query)]
    /\ UNCHANGED <<coreVars, wordCall, panel, plugin, chromaNotes, noteCall, selectedPoints>>

ReturnSearch ==
    /\ textCall.called
    /\ textCall' = [called |-> FALSE]
    /\ UNCHANGED <<coreVars, wordCall, panel, plugin, chromaNotes, noteCall, selectedPoints>>

NoWordCall == [op |-> "none"]
NoNoteCall == [op |-> "none"]
NoTextCall == [called |-> FALSE]

LateInit ==
    /\ wordCall = NoWordCall
    /\ PanelInit
    /\ PluginInit
    /\ chromaNotes = <<>>
    /\ noteCall = NoNoteCall
    /\ selectedPoints = {}
    /\ textCall = NoTextCall

Init == CosInit /\ RankInit /\ VizInit /\ ThemeInit /\ SolverInit /\ DetInit /\ LateInit

\* calculateCosineSimilarity on its own
NextCos == CallCosine
SpecCos == Init /\ [][NextCos]_vars

\* the two variants of searchSimilarNotes
NextRank ==
    InsertRow \/ SearchPostgres \/ ChromaInitialize \/ SearchChroma \/ ReturnResults
SpecRank == Init /\ [][NextRank]_vars

\* assignClusters on its own
NextPart == CallAssignClusters \/ ReturnClusters
SpecPart == Init /\ [][NextPart]_vars

\* the visualization pipeline
NextViz == InitializeVisualizer \/ Visualize \/ ReturnVisualization
SpecViz == Init /\ [][NextViz]_vars

\* the theme extractor
NextTheme == AnalyzeNotes \/ ReturnAnalysis
SpecTheme == Init /\ [][NextTheme]_vars

\* the global themes
NextGlobal == InitializeThemeExtractor \/ ExtractGlobalThemes \/ ReturnThemes
SpecGlobal == Init /\ [][NextGlobal]_vars

\* the probabilities of the t-SNE solver
NextProb == ComputeProbabilities \/ ReturnProbabilities
SpecProb == Init /\ [][NextProb]_vars

\* the iterations of k-means
NextKMeans == StartKMeans \/ IterateKMeans \/ FinishKMeans
SpecKMeans == Init /\ [][NextKMeans]_vars

\* the gradient descent of t-SNE
NextTSNE == StartTSNE \/ GradientStep \/ ReturnLayout
SpecTSNE == Init /\ [][NextTSNE]_vars

\* simpleStem on its own
NextStem == CallSimpleStem \/ ReturnStem
SpecStem == Init /\ [][NextStem]_vars

\* the search panel
NextPanel == InputQuery \/ ClickMode \/ SearchCompletes \/ SearchFails
SpecPanel == Init /\ [][NextPanel]_vars

\* the plugin's toggle command
NextToggle == ToggleFleetingNotesView \/ ViewOpens \/ SetViewStateResolves \/ SaveResolves
SpecToggle == Init /\ [][NextToggle]_vars

\* the notes collection and the indexer
NextNotes ==
    ChromaInitialize \/ InsertNote \/ UpdateNote \/ IndexNote \/ IndexAllNotes \/ ReturnNote
SpecNotes == Init /\ [][NextNotes]_vars

\* the keyword groupings
NextGroups == CallGroupSemanticKeywords \/ CallGroupSimilarKeywords \/ ReturnGroups
SpecGroups == Init /\ [][NextGroups]_vars

\* the visualizer and its selection
NextSelect ==
    InitializeVisualizer \/ VisualizeAgain \/ ReturnVisualization \/ ClickPoint \/ ClearSelection
SpecSelect == Init /\ [][NextSelect]_vars

\* the text search
NextText == CallSearch \/ ReturnSearch
SpecText == Init /\ [][NextText]_vars

\* calls repeated with the same arguments
NextDet == CallRank \/ CallRankAgain \/ CallAnalyze \/ CallAnalyzeAgain \/ ReturnRepeated
SpecDet == Init /\ [][NextDet]_vars

Next ==
    NextCos \/ NextRank \/ NextPart \/ NextViz \/ NextTheme \/ NextGlobal \/ NextProb \/ NextKMeans \/ NextTSNE \/ NextDet
    \/ NextStem \/ NextPanel \/ NextToggle \/ NextNotes \/ NextGroups \/ NextSelect \/ NextText
Spec == Init /\ [][Next]_vars

(***************************************************************************)
(* Properties of the similarity ranking.                                   *)
(***************************************************************************)
\* C1: searchSimilarNotes returns at most `limit` results, each of them with
\* similarity >= threshold, on the normal path, on the fallback path and in
\* the ChromaDB variant.
C1_AtMostLimitAboveThreshold ==
    rankCall.op # "none" =>
        /\ Len(rankCall.results) <= rankCall.limit
        /\ \A i \in 1 .. Len(rankCall.results) :
              NumGeq(rankCall.results[i].similarity, rankCall.threshold)

\* more notes reach the threshold than the limit allows, and the call returned
\* exactly `limit` of them
C1_Witness ==
    /\ rankCall.op = "postgres" /\ rankCall.path = "normal"
    /\ rankCall.limit >= 1
    /\ Len(rankCall.results) = rankCall.limit
    /\ Len(ScoreNotes(rankCall.query, GroupByNote(<<>>, rows),
                      rankCall.threshold, <<>>).v) > rankCall.limit

\* C2: the list searchSimilarNotes returns is sorted non-increasing by
\* similarity: each result's similarity is >= that of the next one.
C2_SortedBySimilarity ==
    \A i \in 1 .. Len(rankCall.results) - 1 :
        NumGeq(rankCall.results[i].similarity, rankCall.results[i + 1].similarity)

\* two notes were scored in increasing order of similarity and come back in
\* decreasing order
C2_Witness ==
    /\ rankCall.op = "postgres" /\ rankCall.path = "normal"
    /\ Len(rankCall.results) = 2
    /\ LET scored == ScoreNotes(rankCall.query, GroupByNote(<<>>, rows),
                                rankCall.threshold, <<>>).v
       IN  /\ Len(scored) = 2
           /\ ~NumGeq(scored[1].similarity, scored[2].similarity)
           /\ rankCall.results = <<scored[2], scored[1]>>

\* C3 (as claimed): calculateCosineSimilarity on two vectors of unequal length
\* fails with an error and returns no number.
C3_MismatchRaises ==
    (cosCall.called /\ Len(cosCall.a) # Len(cosCall.b)) => cosCall.out.kind = "error"

\* C4: calculateCosineSimilarity of two vectors of equal length returns exactly
\* 0, and does not throw, when either vector has norm 0.
C4_ZeroNormGivesZero ==
    (/\ cosCall.called
     /\ Len(cosCall.a) = Len(cosCall.b)
     /\ (Dot(cosCall.a, cosCall.a) = 0 \/ Dot(cosCall.b, cosCall.b) = 0))
        => cosCall.out = Value(Zero)

\* a zero vector compared with a non-zero vector of the same length
C4_Witness ==
    /\ cosCall.called
    /\ Len(cosCall.a) = MaxDim /\ Len(cosCall.b) = MaxDim
    /\ Dot(cosCall.a, cosCall.a) = 0 /\ Dot(cosCall.b, cosCall.b) > 0
    /\ cosCall.out = Value(Zero)

(***************************************************************************)
(* Properties of the visualization pipeline.                               *)
(***************************************************************************)
UsableCount(inputs) == Cardinality({i \in 1 .. Len(inputs) : inputs[i].look = "vec"})

\* the position in `inputs` of the i-th result with a usable embedding
NthUsable(inputs, i) ==
    CHOOSE j \in 1 .. Len(inputs) :
        /\ inputs[j].look = "vec"
        /\ Cardinality({m \in 1 .. j : inputs[m].look = "vec"}) = i

\* C5: an initialized Visualizer's generateTSNEVisualization fails with "Not
\* enough embeddings" exactly when fewer than 2 of its inputs have a usable
\* embedding; the inputs without one are left out (the projector gets exactly
\* the usable ones), and with 2 or more usable inputs the call succeeds.
C5_FailsIffFewerThanTwoUsable ==
    (vizCall.called /\ vizDb) =>
        /\ vizCall.out.kind = "notEnoughEmbeddings" <=> UsableCount(vizCall.inputs) < 2
        /\ vizCall.out.kind = "ok" <=> UsableCount(vizCall.inputs) >= 2
        /\ vizCall.out.kind = "ok" =>
              /\ vizCall.out.n = UsableCount(vizCall.inputs)
              /\ Len(vizCall.out.tsne) = UsableCount(vizCall.inputs)

\* a call fails although it was given two inputs, one of them usable
C5_Witness ==
    /\ vizCall.called /\ vizDb
    /\ Len(vizCall.inputs) = 2 /\ UsableCount(vizCall.inputs) = 1
    /\ vizCall.out.kind = "notEnoughEmbeddings"

\* C6: a successful visualization has exactly one point per usable input, in
\* input order: the i-th point has the id and title of the i-th input with a
\* usable embedding and the i-th coordinate pair of the projector.
C6_OnePointPerUsableInput ==
    (vizCall.called /\ vizCall.out.kind = "ok") =>
        LET points == vizCall.out.data.points
        IN  /\ Len(points) = UsableCount(vizCall.inputs)
            /\ \A i \in 1 .. Len(points) :
                  LET input == vizCall.inputs[NthUsable(vizCall.inputs, i)]
                  IN  /\ points[i].id = input.id
                      /\ points[i].title = input.title
                      /\ points[i].x = vizCall.out.tsne[i].x
                      /\ points[i].y = vizCall.out.tsne[i].y
                      /\ points[i].nan = vizCall.out.tsne[i].nan

\* two usable inputs behind an unusable one give exactly two points
C6_Witness ==
    /\ vizCall.called /\ vizCall.out.kind = "ok"
    /\ Len(vizCall.inputs) = 3
    /\ vizCall.inputs[1].look # "vec"
    /\ Len(vizCall.out.data.points) = 2
    /\ vizCall.out.data.points[1].id = 2

\* C7 (as claimed): the cluster count a visualization of N usable embeddings
\* reports equals min(5, floor(N / 3)).
C7_ReportsClusterLimit ==
    (vizCall.called /\ vizCall.out.kind = "ok") =>
        vizCall.out.data.clusters = Min(5, vizCall.out.n \div 3)

\* C7 (amended): for N usable embeddings the cluster count asked of
\* assignClusters is k = min(5, floor(N / 3)); the count reported is 1 + the
\* largest cluster index assigned to a point, at least 1 and at most max(1, k).
C7_ReportsLargestIndexPlusOne ==
    (vizCall.called /\ vizCall.out.kind = "ok") =>
        /\ vizCall.out.k = Min(5, UsableCount(vizCall.inputs) \div 3)
        /\ \E i \in 1 .. Len(vizCall.out.data.points) :
              vizCall.out.data.clusters = vizCall.out.data.points[i].cluster + 1
        /\ \A i \in 1 .. Len(vizCall.out.data.points) :
              vizCall.out.data.clusters >= vizCall.out.data.points[i].cluster + 1
        /\ vizCall.out.data.clusters >= 1
        /\ vizCall.out.data.clusters <= Max(1, vizCall.out.k)

\* 18 usable embeddings: 5 clusters asked, fewer reported
C7_Witness ==
    /\ vizCall.called /\ vizCall.out.kind = "ok"
    /\ vizCall.out.n = 18
    /\ vizCall.out.k = 5
    /\ vizCall.out.data.clusters \in 2 .. 4

(***************************************************************************)
(* Properties of assignClusters.                                           *)
(***************************************************************************)
\* C8: assignClusters called with k <= 1 returns a list of zeros as long as
\* the list of points.
C8_AllZeroForKAtMostOne ==
    (partCall.called /\ partCall.k <= 1) =>
        partCall.out = Value([i \in 1 .. Len(partCall.points) |-> 0])

\* k = 1 on a full list of points, and k = 0 on no points
C8_Witness ==
    /\ partCall.called
    /\ \/ partCall.k = 1 /\ Len(partCall.points) = MaxPoints
       \/ partCall.k = 0 /\ partCall.points = <<>>
    /\ partCall.out.kind = "value"

\* C9: for k >= 1, whenever assignClusters returns, it returns one cluster
\* index per point, each an integer in 0 .. k-1; it returns whenever it is
\* given at least one point.
C9_IndicesBelowK ==
    (partCall.called /\ partCall.k >= 1) =>
        /\ partCall.points # <<>> => partCall.out.kind = "value"
        /\ partCall.out.kind = "value" =>
              /\ Len(partCall.out.v) = Len(partCall.points)
              /\ \A i \in 1 .. Len(partCall.out.v) : partCall.out.v[i] \in 0 .. partCall.k - 1

\* the points end up in two different clusters, the highest index k-1 among them
C9_Witness ==
    /\ partCall.called /\ partCall.k = MaxK
    /\ partCall.out.kind = "value"
    /\ \E i, j \in 1 .. Len(partCall.out.v) :
          partCall.out.v[i] = partCall.k - 1 /\ partCall.out.v[j] # partCall.out.v[i]


\* C10: the keywords of analyzeNotes are the (at most 20) surviving words of
\* highest raw frequency, each once, in non-increasing order of raw frequency,
\* where a word survives when it is longer than 2 characters, is no stop word
\* and is not made of digits only; normalizedFrequency is the raw frequency
\* divided by the number of surviving words (counted with repetitions).
C10_KeywordsAreTopSurvivingTokens ==
    themeCall.called =>
        \A words \in {themeCall.out.words}, keywords \in {themeCall.out.keywords} :
            \A surviving \in
                {{i \in 1 .. Len(words) :
                    /\ Len(words[i]) > 2
                    /\ words[i] \notin stopWords
                    /\ \E c \in 1 .. Len(words[i]) : words[i][c] \notin Digits}} :
                \A distinct \in {{words[i] : i \in surviving}} :
                    /\ Len(keywords) = Min(20, Cardinality(distinct))
                    /\ \A k \in 1 .. Len(keywords) :
                          /\ keywords[k].word \in distinct
                          /\ keywords[k].frequency =
                                Cardinality({i \in surviving : words[i] = keywords[k].word})
                          /\ keywords[k].normalizedFrequency =
                                [num |-> keywords[k].frequency, den |-> Cardinality(surviving)]
                          /\ \A j \in 1 .. k - 1 :
                                /\ keywords[j].word # keywords[k].word
                                /\ keywords[j].frequency >= keywords[k].frequency
                          /\ \A w \in distinct \ {keywords[j].word : j \in 1 .. Len(keywords)} :
                                Cardinality({i \in surviving : words[i] = w})
                                    <= keywords[k].frequency

\* a call with stop words and short words among its words and more than 20
\* different surviving words: 20 keywords of differing frequencies
C10_Witness ==
    /\ themeCall.called
    /\ Len(themeCall.out.keywords) = 20
    /\ themeCall.out.keywords[1].frequency > themeCall.out.keywords[20].frequency
    /\ themeCall.out.keywords[1].normalizedFrequency.den < themeCall.out.wordCount
    /\ Cardinality({themeCall.out.words[i] : i \in 1 .. Len(themeCall.out.words)}
                   \ stopWords) > 22
    /\ \E i \in 1 .. Len(themeCall.out.words) : themeCall.out.words[i] \in stopWords
    /\ \E i \in 1 .. Len(themeCall.out.words) : Len(themeCall.out.words[i]) = 2


(***************************************************************************)
(* Properties of the n-grams.                                              *)
(***************************************************************************)
\* the list `grams` is what generateNGrams owes for windows of n words over
\* the surviving words `sv`, with at most `limit` entries
NGramsAreRepeatedWindows(grams, sv, n, limit) ==
    \A starts \in {0 .. Len(sv) - n} :
      \A window \in
          {[i \in starts |->
               IF n = 2 THEN sv[i + 1] \o <<" ">> \o sv[i + 2]
               ELSE sv[i + 1] \o <<" ">> \o sv[i + 2] \o <<" ">> \o sv[i + 3]]} :
        \A repeated \in
            {{window[i] : i \in {x \in starts :
                                    \E y \in starts : y # x /\ window[y] = window[x]}}} :
            /\ Len(grams) = Min(limit, Cardinality(repeated))
            /\ \A k \in 1 .. Len(grams) :
                  /\ grams[k].ngram \in repeated
                  /\ grams[k].frequency =
                        Cardinality({i \in starts : window[i] = grams[k].ngram})
                  /\ grams[k].frequency > 1
                  /\ Len(grams[k].positions) = grams[k].frequency
                  /\ \A r \in 1 .. Len(grams[k].positions) :
                        /\ grams[k].positions[r] \in starts
                        /\ window[grams[k].positions[r]] = grams[k].ngram
                        /\ r > 1 => grams[k].positions[r - 1] < grams[k].positions[r]
                  /\ \A j \in 1 .. k - 1 :
                        /\ grams[j].ngram # grams[k].ngram
                        /\ grams[j].frequency >= grams[k].frequency
                  /\ \A w \in repeated \ {grams[j].ngram : j \in 1 .. Len(grams)} :
                        Cardinality({i \in starts : window[i] = w}) <= grams[k].frequency

\* C11: the bigrams (trigrams) of analyzeNotes are the windows of 2 (3)
\* consecutive surviving words that occur more than once: each listed once
\* with its number of occurrences as frequency and all its start indices, in
\* increasing order, as positions; the list is in non-increasing order of
\* frequency and holds the 15 (10) most frequent ones at most.  A window
\* that occurs once is never listed.
C11_NGramsAreRepeatedWindows ==
    themeCall.called =>
        \A words \in {themeCall.out.words} :
            \A sv \in
                {SelectSeq(words,
                           LAMBDA w : /\ Len(w) > 2
                                      /\ w \notin stopWords
                                      /\ \E c \in 1 .. Len(w) : w[c] \notin Digits)} :
                /\ NGramsAreRepeatedWindows(themeCall.out.bigrams, sv, 2, 15)
                /\ NGramsAreRepeatedWindows(themeCall.out.trigrams, sv, 3, 10)

\* two notes that both hold "cat sat": the bigram "cat sat" with frequency 2
\* at positions 0 and 3, a trigram of frequency 2, and the bigram "mat cat",
\* seen once, left out
C11_Witness ==
    /\ themeCall.called
    /\ Len(themeCall.previews) = 2
    /\ Len(themeCall.out.bigrams) = 2
    /\ themeCall.out.bigrams[1] =
          [ngram |-> Chars("cat sat"), frequency |-> 2, positions |-> <<0, 3>>]
    /\ Len(themeCall.out.trigrams) = 1
    /\ themeCall.out.trigrams[1].ngram = Chars("cat sat mat")
    /\ \E i \in 1 .. Len(themeCall.out.words) - 1 :
          themeCall.out.words[i] = Chars("mat") /\ themeCall.out.words[i + 1] = Chars("the")


\* C12: analyzeNotes on no notes, or on notes whose texts are all empty,
\* returns wordCount 0, uniqueWords 0, sentiment 0 and readability 0 (a
\* quotient with a denominator other than 0), and no keywords, bigrams,
\* trigrams or topics.
C12_EmptyInputGivesZeroes ==
    (themeCall.called /\ \A i \in 1 .. Len(themeCall.previews) : themeCall.previews[i] = "") =>
        /\ themeCall.out.wordCount = 0
        /\ themeCall.out.uniqueWords = 0
        /\ themeCall.out.sentiment.num = 0 /\ themeCall.out.sentiment.den > 0
        /\ themeCall.out.readability.num = 0 /\ themeCall.out.readability.den > 0
        /\ themeCall.out.keywords = <<>>
        /\ themeCall.out.bigrams = <<>>
        /\ themeCall.out.trigrams = <<>>
        /\ themeCall.out.topics = <<>>

\* analyzeNotes called on two empty notes
C12_Witness ==
    /\ themeCall.called
    /\ themeCall.previews = <<"", "">>
    /\ themeCall.out.wordCount = 0


(***************************************************************************)
(* Properties of repeated calls.                                           *)
(***************************************************************************)
\* the row at which searchSimilarNotes pushes the result of note `id`: on
\* the normal path the first row of the note with an embedding that parses,
\* in the fallback the first row of the note that reaches the threshold
PushedAt(call, path, id) ==
    LET pushes == {x \in 1 .. Len(call.rows) :
                      /\ call.rows[x].id = id
                      /\ IF path = "normal" THEN call.rows[x].emb.k \notin {"null", "bad"}
                         ELSE NumGeq(FallbackSimilarity(call.query, call.rows[x].emb),
                                     call.threshold)}
    IN  CHOOSE r \in pushes : \A x \in pushes : r <= x

FirstIndexOf(seq, x) == CHOOSE i \in 1 .. Len(seq) : seq[i] = x /\ \A j \in 1 .. i - 1 : seq[j] # x

RECURSIVE LeadersUpTo(_, _)
LeadersUpTo(top, n) ==
    IF n = 0 THEN <<>>
    ELSE CHOOSE result \in
            {LET related == {j \in 1 .. n - 1 :
                                leader[j] = j /\ areWordsRelated(top[j].word, top[n].word)}
             IN  Append(leader, IF related = {} THEN n
                                ELSE CHOOSE j \in related : \A x \in related : j <= x) :
                leader \in {LeadersUpTo(top, n - 1)}} : TRUE

TopicsOwed(top, bigrams) ==
    CHOOSE owed \in
        {[k \in 1 .. Len(groups) |->
             JoinWords([m \in 1 .. Len(groups[k]) |-> top[groups[k][m]].word], <<",", " ">>)]
         \o [k \in 1 .. Min(5, Len(repeated)) |-> repeated[k].ngram] :
            <<groups, repeated>> \in
                {<<SelectSeq([l \in 1 .. Len(top) |->
                                 SelectSeq([i \in 1 .. Len(top) |-> i],
                                           LAMBDA i : leader[i] = l)],
                             LAMBDA g : Len(g) >= 2),
                   SelectSeq(bigrams, LAMBDA bg : bg.frequency >= 2)>> :
                    leader \in {LeadersUpTo(top, Len(top))}}} : TRUE

\* C14: the topics of analyzeNotes are at most 8: first one string, its words
\* joined by ", ", for each group of two or more related keywords among the
\* 10 top keywords, then up to 5 bigrams of frequency 2 or more; a keyword
\* alone in its group is no topic.
C14_TopicsAreGroupsThenBigrams ==
    themeCall.called =>
        \A kw \in {themeCall.out.keywords}, topics \in {themeCall.out.topics} :
            \A owed \in {TopicsOwed(SubSeq(kw, 1, Min(10, Len(kw))), themeCall.out.bigrams)} :
                /\ Len(topics) <= 8
                /\ topics = SubSeq(owed, 1, Min(8, Len(owed)))

\* the group "cat, sat, mat" first, four bigrams after it, and the keyword
\* "rug", related to no other, in no topic
C14_Witness ==
    /\ themeCall.called
    /\ Len(themeCall.out.topics) = 5
    /\ themeCall.out.topics[1] = Chars("cat, sat, mat")
    /\ themeCall.out.topics[2] = themeCall.out.bigrams[1].ngram
    /\ \E k \in 1 .. 10 : themeCall.out.keywords[k].word = Chars("rug")
    /\ \A t \in 1 .. 5 : ~Includes(themeCall.out.topics[t], Chars("rug,"))

(***************************************************************************)
(* C15: extractGlobalThemes returns at most 5 theme groups; every group    *)
(* has at least 2 keywords or is one keyword of raw frequency >= 3; the    *)
(* score of a group is the mean of its members' normalized frequencies     *)
(* and its frequency the sum of their raw frequencies; the groups come in  *)
(* non-increasing order of score.                                          *)
(***************************************************************************)
\* the raw frequency of a word in the keyword-frequency map
RawFrequencyOf(wordFreq, word) ==
    LET k == CHOOSE i \in 1 .. Len(wordFreq) : wordFreq[i].word = word
    IN  wordFreq[k].frequency

RECURSIVE SumRawOver(_, _)
SumRawOver(wordFreq, keywords) ==
    IF keywords = <<>> THEN 0
    ELSE RawFrequencyOf(wordFreq, Head(keywords)) + SumRawOver(wordFreq, Tail(keywords))

C15_ThemeGroupsShape ==
    (globalCall.called /\ globalCall.out.kind = "ok") =>
        \A themes \in {globalCall.out.themes}, wordFreq \in {globalCall.out.analysis.wordFreq} :
            /\ Len(themes) <= 5
            /\ \A t \in 1 .. Len(themes) :
                  LET theme == themes[t]
                      members == Len(theme.keywords)
                      raw == SumRawOver(wordFreq, theme.keywords)
                      total == SumRawOver(wordFreq, [i \in 1 .. Len(wordFreq) |-> wordFreq[i].word])
                  IN  /\ members >= 2 \/ (members = 1 /\ raw >= 3)
                      /\ theme.frequency = raw
                      \* score = (sum of raw / total) / members
                      /\ theme.score.den > 0
                      /\ theme.score.num * (total * members) = raw * theme.score.den
            /\ \A t \in 1 .. Len(themes) - 1 :
                  themes[t].score.num * themes[t + 1].score.den
                      >= themes[t + 1].score.num * themes[t].score.den

\* five groups are returned, one of them a single keyword, and the order of
\* the scores differs from the order in which the groups were formed
C15_Witness ==
    /\ globalCall.called
    /\ globalCall.out.kind = "ok"
    /\ Len(globalCall.out.themes) = 5
    /\ \E t \in 1 .. 5 : Len(globalCall.out.themes[t].keywords) = 1
    /\ \E t \in 1 .. 5 : Len(globalCall.out.themes[t].keywords) >= 2
    /\ globalCall.out.themes # globalCall.out.stored
    /\ globalCall.out.stored # <<>>

(***************************************************************************)
(* C16: extractGlobalThemes forms its groups over the full keyword-        *)
(* frequency map of all surviving tokens, not only over the 20 most        *)
(* frequent keywords: the keyword groups of the returned themes are the    *)
(* groups that the same grouping forms over every entry of the map, so a   *)
(* token ranked below the 20 most frequent ones is a member of a group     *)
(* whenever it is related to the group's first keyword.                    *)
(***************************************************************************)
\* the keyword lists of the groups formed over every entry of the map
GroupsOverFullMap(wordFreq) ==
    CHOOSE lists \in
        {[g \in 1 .. Len(groups) |-> [i \in 1 .. Len(groups[g]) |-> groups[g][i].word]] :
            groups \in {groupSimilarKeywords(getTopKeywords(wordFreq, Len(wordFreq)))}} : TRUE

C16_GroupsOverFullMap ==
    (globalCall.called /\ globalCall.out.kind = "ok") =>
        \A themes \in {globalCall.out.themes} :
            {themes[t].keywords : t \in 1 .. Len(themes)}
                = LET lists == GroupsOverFullMap(globalCall.out.analysis.wordFreq)
                  IN  {lists[g] : g \in 1 .. Len(lists)}

(***************************************************************************)
(* C17: the matrix P returned by computeProbabilities is symmetric, and    *)
(* each entry P[i][j] equals (P(j|i) + P(i|j)) / (2N), where P(j|i) are    *)
(* the row-normalized conditional probabilities computed before the        *)
(* symmetrization.                                                         *)
(***************************************************************************)
C17_SymmetricMeanOfConditionals ==
    probCall.called =>
        \A i, j \in 1 .. probCall.n :
            /\ FracEq(probCall.P[i][j], probCall.P[j][i])
            /\ FracEq(probCall.P[i][j],
                      FracMean(probCall.cond[i][j], probCall.cond[j][i], 2 * probCall.n))

(***************************************************************************)
(* C18: in every k-means iteration each point is assigned to the centroid  *)
(* at minimum squared Euclidean distance among the current centroids, and  *)
(* among several centroids equally near to the one with the lowest index.  *)
(* Distances are compared where they are numbers; a point with no numeric  *)
(* distance stays in cluster 0.                                            *)
(***************************************************************************)
Nearer(d, e) == d.num * e.den < e.num * d.den
AsNear(d, e) == d.num * e.den <= e.num * d.den

C18_NearestCentroidLowestIndex ==
    (km.phase = "loop" /\ km.iter >= 1) =>
        \A i \in 1 .. Len(km.points) :
            LET k == Len(km.used)
                dist == [c \in 1 .. k |-> Dist(km.points[i], km.used[c])]
                numeric == {c \in 1 .. k : ~dist[c].nan}
                mine == km.clusters[i] + 1
            IN  IF numeric = {} THEN mine = 1
                ELSE /\ mine \in numeric
                     /\ \A c \in numeric : AsNear(dist[mine], dist[c])
                     /\ \A c \in numeric : c < mine => Nearer(dist[mine], dist[c])

\* after the second or a later iteration a point has two centroids equally
\* near and is in the lower one of them, and some point is in a cluster
\* other than the first
C18_Witness ==
    /\ km.phase = "loop"
    /\ km.iter >= 2
    /\ \E i \in 1 .. Len(km.points) :
          \E c \in 1 .. Len(km.used) :
             /\ ~km.points[i].nan
             /\ c > km.clusters[i] + 1
             /\ ~Dist(km.points[i], km.used[c]).nan
             /\ Dist(km.points[i], km.used[c]).num * Dist(km.points[i], km.used[km.clusters[i] + 1]).den
                  = Dist(km.points[i], km.used[km.clusters[i] + 1]).num * Dist(km.points[i], km.used[c]).den
    /\ \E i \in 1 .. Len(km.points) : km.clusters[i] > 0

(***************************************************************************)
(* C19: in runTSNE the learning rate in effect equals the supplied         *)
(* learningRate up to and including iteration 250; after iteration 250 it  *)
(* is a decayed value, not larger than the supplied learningRate and not   *)
(* below the floor 50, and it stays constant from then on.  The last       *)
(* update was the one of iteration iter - 1.                               *)
(***************************************************************************)
C19_LearningRateDecaysOnce ==
    (tsne.phase \in {"loop", "returned"} /\ tsne.iter >= 1) =>
        /\ tsne.iter - 1 <= 250 => tsne.used = 4 * tsne.learningRate
        /\ tsne.iter - 1 > 250 =>
              /\ tsne.used <= 4 * tsne.learningRate
              /\ tsne.used >= 4 * 50
              /\ tsne.eta = tsne.used

(***************************************************************************)
(* C20: after every gradient-descent step of runTSNE, and therefore in the *)
(* returned layout, the mean of the output coordinates is (0, 0) per axis, *)
(* within 1e-6.  Coordinates are in units of 1e-5: the mean sum / (n *     *)
(* den) is within 0.1 of a unit when 10 * |sum| <= n * den.                *)
(***************************************************************************)
AbsOf(x) == IF x < 0 THEN -x ELSE x

MeanIsZero(Y, den) ==
    /\ 10 * AbsOf(SumX(Y)) <= Len(Y) * den
    /\ 10 * AbsOf(SumY(Y)) <= Len(Y) * den

\* as stated: every returned layout included
C20_MeanZeroInEveryReturnedLayout ==
    /\ (tsne.phase \in {"loop", "returned"} /\ tsne.iter >= 1) => MeanIsZero(tsne.Y, tsne.den)
    /\ tsne.phase = "returned" => MeanIsZero(tsne.Y, tsne.den)

\* amended: after every step, and in the layout returned after at least one
\* step
C20_MeanZeroAfterEveryStep ==
    (tsne.phase \in {"loop", "returned"} /\ tsne.iter >= 1) => MeanIsZero(tsne.Y, tsne.den)

\* a layout is returned after its last update left both means away from 0
C20_Witness ==
    /\ tsne.phase = "returned"
    /\ tsne.iter >= 1
    /\ ~MeanIsZero(tsne.moved, 1)
    /\ SumX(tsne.moved) # 0 /\ SumY(tsne.moved) # 0
    /\ \E i \in 1 .. Len(tsne.Y) : tsne.Y[i].x # 0 /\ tsne.Y[i].y # 0

(***************************************************************************)
(* C21: the naive stem of a word strips at most one suffix of the list     *)
(* ing, ed, er, est, ly, s, and strips it only when the remainder stays    *)
(* longer than the length of the suffix + 2 characters; otherwise the word *)
(* is returned unchanged.                                                  *)
(***************************************************************************)
\* the suffixes whose removal from word gives out
StrippedSuffixes(word, out) ==
    {i \in 1 .. Len(suffixes) : out \o suffixes[i] = word}

\* as stated: the remainder is longer than the suffix + 2
C21_StripsWhenRemainderLongerThanSuffixPlusTwo ==
    wordCall.op = "stem" =>
        \/ wordCall.out = wordCall.word
        \/ \E i \in StrippedSuffixes(wordCall.word, wordCall.out) :
              Len(wordCall.out) > Len(suffixes[i]) + 2

\* amended: the word is longer than the suffix + 2, that is, the remainder
\* is longer than 2 characters; the suffix stripped is the first of the list
\* that the word ends with and that leaves such a remainder; a word with no
\* such suffix is returned unchanged
C21_StripsFirstSuffixLeavingThreeCharacters ==
    wordCall.op = "stem" =>
        LET word == wordCall.word
            out == wordCall.out
            fits == {i \in 1 .. Len(suffixes) :
                        /\ Len(word) >= Len(suffixes[i])
                        /\ SubSeq(word, Len(word) - Len(suffixes[i]) + 1, Len(word)) = suffixes[i]
                        /\ Len(word) - Len(suffixes[i]) > 2}
        IN  IF fits = {} THEN out = word
            ELSE \E i \in fits :
                    /\ \A j \in fits : i <= j
                    /\ out \o suffixes[i] = word
                    /\ Len(out) > 2

\* a suffix is stripped that leaves no more than its own length + 2, and the
\* stem still ends with a suffix of the list that could be stripped
C21_Witness ==
    /\ wordCall.op = "stem"
    /\ wordCall.out # wordCall.word
    /\ \A i \in StrippedSuffixes(wordCall.word, wordCall.out) :
          Len(wordCall.out) <= Len(suffixes[i]) + 2
    /\ \E i \in 1 .. Len(suffixes) :
          EndsWith(wordCall.out, suffixes[i]) /\ Len(wordCall.out) > Len(suffixes[i]) + 2

(***************************************************************************)
(* C22: in the fleeting-notes panel, once all started searches have        *)
(* completed, the displayed searchResults are those of the most recently   *)
(* entered query under the current search mode, and are empty if the       *)
(* latest input is blank, for every interleaving of input events, mode     *)
(* switches and search completions.  Stated for the runs in which no       *)
(* search has thrown.                                                      *)
(***************************************************************************)
C22_LatestQueryWins ==
    (panel.pending = {} /\ ~panel.failed) =>
        panel.searchResults =
            IF IsBlank(panel.input) THEN <<>> ELSE ResultsOf(panel.input, panel.mode)

TogglesFinished ==
    plugin.opening = {} /\ plugin.opened = {} /\ plugin.saves = <<>>

(***************************************************************************)
(* C23: once all toggleFleetingNotesView calls have finished, whatever     *)
(* their overlap, settings.panelVisible is true exactly when a view leaf   *)
(* is open, and the settings last saved equal the settings in memory.      *)
(***************************************************************************)
C23_PanelVisibleIffLeafOpen ==
    TogglesFinished =>
        /\ plugin.panelVisible <=> plugin.leaves # {}
        /\ plugin.saved = plugin.panelVisible

\* the half of C23 about the saved settings
SavedEqualsMemory ==
    TogglesFinished => plugin.saved = plugin.panelVisible

(***************************************************************************)
(* C24: updateNote never loses a note: when the note was stored before     *)
(* the call, the collection afterwards holds either the document stored    *)
(* before, under the same id, or the new document under the id of the new  *)
(* note data; also when the re-insert fails or the new data has an empty   *)
(* id or empty content.                                                    *)
(***************************************************************************)
C24_UpdateNeverLosesNote ==
    (noteCall.op = "update" /\ noteCall.id \in DOMAIN noteCall.before) =>
        \/ /\ noteCall.id \in DOMAIN chromaNotes
           /\ chromaNotes[noteCall.id] = noteCall.before[noteCall.id]
        \/ /\ noteCall.noteData.id \in DOMAIN chromaNotes
           /\ chromaNotes[noteCall.noteData.id] = noteCall.noteData.content

(***************************************************************************)
(* C25: indexNote returns true only when the current content of the file   *)
(* is stored under the id of the file after the call, and                  *)
(* indexAllNotes counts in indexed no more files than are stored so.       *)
(***************************************************************************)
StoredAsRead(file) ==
    /\ file.path \in DOMAIN chromaNotes
    /\ chromaNotes[file.path] = file.content

C25_IndexedMeansStored ==
    /\ (noteCall.op = "index" /\ noteCall.out) => StoredAsRead(noteCall.file)
    /\ noteCall.op = "indexAll" =>
          noteCall.out.indexed <=
              Cardinality({i \in 1 .. Len(noteCall.files) : StoredAsRead(noteCall.files[i])})

\* the cosines of the embeddings stored for the note id, none of them NaN
CosinesOf(id) ==
    {CosineOfParsed(rankCall.query, rows[k].emb).v :
        k \in {k \in 1 .. Len(rows) : rows[k].id = id /\ rows[k].emb.k = "vec"}}

(***************************************************************************)
(* C26: on the normal path of searchSimilarNotes (Postgres) every note id  *)
(* is returned at most once, and the similarity of a returned note is the  *)
(* greatest cosine similarity between the query and the embeddings stored  *)
(* for that note, also when all of them are negative.  Stated for the      *)
(* notes all of whose embeddings are arrays of numbers.                    *)
(***************************************************************************)
C26_SimilarityIsMaxOverEmbeddings ==
    (rankCall.op = "postgres" /\ rankCall.path = "normal") =>
        \A i \in 1 .. Len(rankCall.results) :
            LET res == rankCall.results[i]
            IN  /\ \A j \in 1 .. Len(rankCall.results) : rankCall.results[j].id = res.id => i = j
                /\ (\A k \in 1 .. Len(rows) :
                       rows[k].id = res.id => rows[k].emb.k \in {"vec", "null", "bad"}) =>
                      /\ \E c \in CosinesOf(res.id) : NumEq(c, res.similarity)
                      /\ \A c \in CosinesOf(res.id) : NumGeq(res.similarity, c)

(***************************************************************************)
(* C27: searchSimilarNotes (ChromaDB) returns every candidate of the       *)
(* answer whose distance d satisfies 1 - d >= threshold, with similarity   *)
(* 1 - d; an exact match, at distance 0, comes back with similarity 1.     *)
(***************************************************************************)
C27_CandidatesKeepOneMinusDistance ==
    (rankCall.op = "chroma" /\ rankCall.path = "chroma") =>
        \A k \in 1 .. Len(rankCall.answer) :
            LET entry == rankCall.answer[k]
            IN  (entry.has /\ NumGeq(Rat(4 - entry.dist4, 4), rankCall.threshold)) =>
                    \E i \in 1 .. Len(rankCall.results) :
                        /\ rankCall.results[i].id = entry.id
                        /\ NumEq(rankCall.results[i].similarity, Rat(4 - entry.dist4, 4))

GroupingReturned == wordCall.op \in {"semantic", "similar"}

\* the places <<g, i>> of the groups returned
GroupPlaces ==
    {<<g, i>> \in (1 .. MaxKeywords) \X (1 .. MaxKeywords) :
        g <= Len(wordCall.out) /\ i <= Len(wordCall.out[g])}

(***************************************************************************)
(* C28: groupSemanticKeywords and groupSimilarKeywords partition their     *)
(* input: the members of the groups are keywords of the input, no keyword  *)
(* stands in two places, every member of a group but the first is related  *)
(* (areWordsRelated) to the first keyword of its group, and                *)
(* groupSemanticKeywords puts every keyword of the input in a group.       *)
(***************************************************************************)
C28_GroupsPartitionTheKeywords ==
    GroupingReturned =>
        /\ \A p \in GroupPlaces :
              /\ \E k \in 1 .. Len(wordCall.keywords) :
                    wordCall.keywords[k] = wordCall.out[p[1]][p[2]]
              /\ \A q \in GroupPlaces :
                    wordCall.out[p[1]][p[2]].word = wordCall.out[q[1]][q[2]].word => p = q
              /\ p[2] > 1 =>
                    areWordsRelated(wordCall.out[p[1]][1].word, wordCall.out[p[1]][p[2]].word)
        /\ \A g \in 1 .. Len(wordCall.out) : wordCall.out[g] # <<>>
        /\ wordCall.op = "semantic" =>
              \A k \in 1 .. Len(wordCall.keywords) :
                  \E p \in GroupPlaces : wordCall.out[p[1]][p[2]] = wordCall.keywords[k]

\* a keyword related to the first keywords of two groups stands in the first
\* of them only
C28_Witness ==
    /\ GroupingReturned
    /\ Len(wordCall.out) = 2
    /\ Len(wordCall.out[1]) = 2
    /\ ~areWordsRelated(wordCall.out[1][1].word, wordCall.out[2][1].word)
    /\ areWordsRelated(wordCall.out[2][1].word, wordCall.out[1][2].word)

(***************************************************************************)
(* C29: a successful generateTSNEVisualization carries no selection over:  *)
(* when it returns, getSelectedPoints gives the empty list.                *)
(***************************************************************************)
C29_NoSelectionCarriedOver ==
    (vizCall.called /\ vizCall.out.kind = "ok") =>
        getSelectedPoints(currentData, selectedPoints) = <<>>

\* the other half of C29: a failed call leaves the points and the selection
FailedCallChangesNothing ==
    [][(vizCall'.called /\ ~vizCall.called /\ vizCall'.out.kind # "ok") =>
          (currentData' = currentData /\ selectedPoints' = selectedPoints)]_vars

\* the score of the file of the call with the given path
ScoreOfPath(path) ==
    LET file == CHOOSE f \in {textCall.files[i] : i \in 1 .. Len(textCall.files)} : f.path = path
    IN  calculateTextScore(file.content, Basename(file.path), LowerChars(textCall.query),
                           file.recent)

(***************************************************************************)
(* C30: TextSearch.search returns each file at most once, returns exactly  *)
(* the files that could be read and whose score is greater than 0, each    *)
(* with its score, in the order of non-increasing score; a file whose read *)
(* fails is left out and the files after it are still searched.            *)
(***************************************************************************)
C30_EachScoredFileOnceBestFirst ==
    textCall.called =>
        /\ \A i, j \in 1 .. Len(textCall.out) :
              /\ textCall.out[i].path = textCall.out[j].path => i = j
              /\ i < j => textCall.out[i].score >= textCall.out[j].score
        /\ \A i \in 1 .. Len(textCall.out) :
              /\ textCall.out[i].score > 0
              /\ \E k \in 1 .. Len(textCall.files) :
                    /\ textCall.files[k].path = textCall.out[i].path
                    /\ textCall.files[k].readable
              /\ textCall.out[i].score = ScoreOfPath(textCall.out[i].path)
        /\ \A k \in 1 .. Len(textCall.files) :
              (textCall.files[k].readable /\ ScoreOfPath(textCall.files[k].path) > 0) =>
                  \E i \in 1 .. Len(textCall.out) : textCall.out[i].path = textCall.files[k].path

\* the read of the first file fails although its text matches, and the two
\* files after it come back, the later one first because it scores more
C30_Witness ==
    /\ textCall.called
    /\ Len(textCall.files) = 3
    /\ ~textCall.files[1].readable
    /\ ScoreOfPath(textCall.files[1].path) > 0
    /\ Len(textCall.out) = 2
    /\ textCall.out[1].path = textCall.files[3].path
    /\ textCall.out[2].path = textCall.files[2].path
    /\ textCall.out[1].score > textCall.out[2].score
====
